---- MODULE Spec2Model ----
(***************************************************************************)
(* A model of pkg/docgen/parser.go: the registry of enumeration groups and *)
(* table definitions, the scan that fills it (ParseEnums, ParseDBComments) *)
(* and the renderer (ToMarkdown).                                          *)
(*                                                                         *)
(* Text is modelled as it is in the program: a string is a sequence of     *)
(* one-character strings, and every string function of the source          *)
(* (TrimSpace, Fields, Index, the regular expressions, ...) is computed    *)
(* character by character.                                                 *)
(***************************************************************************)
EXTENDS Integers, Sequences, FiniteSets, TLC

(***************************************************************************)
(* Characters, in ascending byte order (what sort.Strings compares).       *)
(***************************************************************************)
Alphabet ==
    << "\t", " ", "\"", "'", "(", ")", "*", ",", "-", ".", "/",
       "0", "1", "2", "3", "4", "5", "6", "7", "8", "9", ":", ";", "=", "@",
       "A", "B", "C", "D", "E", "F", "G", "H", "I", "J", "K", "L", "M",
       "N", "O", "P", "Q", "R", "S", "T", "U", "V", "W", "X", "Y", "Z", "_",
       "a", "b", "c", "d", "e", "f", "g", "h", "i", "j", "k", "l", "m",
       "n", "o", "p", "q", "r", "s", "t", "u", "v", "w", "x", "y", "z" >>

CharSet == { Alphabet[i] : i \in DOMAIN Alphabet }

Code == [ c \in CharSet |-> CHOOSE i \in DOMAIN Alphabet : Alphabet[i] = c ]

IsUpper(c) == Code[c] >= Code["A"] /\ Code[c] <= Code["Z"]

IsLower(c) == Code[c] >= Code["a"] /\ Code[c] <= Code["z"]

IsSpace(c) == c \in { " ", "\t" }

ToUpperChar(c) == IF IsLower(c) THEN Alphabet[Code[c] - (Code["a"] - Code["A"])] ELSE c

ToLowerChar(c) == IF IsUpper(c) THEN Alphabet[Code[c] + (Code["a"] - Code["A"])] ELSE c

ToUpper(s) == [ i \in 1..Len(s) |-> ToUpperChar(s[i]) ]

ToLower(s) == [ i \in 1..Len(s) |-> ToLowerChar(s[i]) ]

(***************************************************************************)
(* The string functions of package strings that the parser uses.           *)
(* Positions are 1-based; 0 stands for Go's -1 (not found).                *)
(***************************************************************************)
HasPrefix(s, p) == Len(s) >= Len(p) /\ SubSeq(s, 1, Len(p)) = p

HasSuffix(s, p) == Len(s) >= Len(p) /\ SubSeq(s, Len(s) - Len(p) + 1, Len(s)) = p

TrimPrefix(s, p) == IF HasPrefix(s, p) THEN SubSeq(s, Len(p) + 1, Len(s)) ELSE s

Index(s, sub) ==
    LET hits == { i \in 1..(Len(s) - Len(sub) + 1) : SubSeq(s, i, i + Len(sub) - 1) = sub }
    IN  IF hits = {} THEN 0 ELSE CHOOSE i \in hits : \A j \in hits : i <= j

Contains(s, sub) == Index(s, sub) # 0

\* strings.Trim(s, cutset): the longest prefix and suffix of cutset characters removed
Trim(s, cutset) ==
    LET keep == { i \in 1..Len(s) : s[i] \notin cutset }
    IN  IF keep = {} THEN << >>
        ELSE SubSeq(s, CHOOSE i \in keep : \A j \in keep : i <= j,
                       CHOOSE i \in keep : \A j \in keep : i >= j)

TrimSpace(s) == Trim(s, { " ", "\t" })

\* strings.Fields: the maximal runs of non-space characters
RECURSIVE FieldsFrom(_, _)
FieldsFrom(s, i) ==
    LET starts == { k \in i..Len(s) : ~IsSpace(s[k]) }
    IN  IF starts = {} THEN << >>
        ELSE LET b == CHOOSE k \in starts : \A j \in starts : k <= j
                 ends == { k \in b..Len(s) : k = Len(s) \/ IsSpace(s[k + 1]) }
                 e == CHOOSE k \in ends : \A j \in ends : k <= j
             IN  << SubSeq(s, b, e) >> \o FieldsFrom(s, e + 1)

Fields(s) == FieldsFrom(s, 1)

\* strings.Split(s, sep) for a one-character separator
RECURSIVE SplitFrom(_, _, _)
SplitFrom(s, sep, i) ==
    LET seps == { k \in i..Len(s) : s[k] = sep }
    IN  IF seps = {} THEN << SubSeq(s, i, Len(s)) >>
        ELSE LET k == CHOOSE x \in seps : \A y \in seps : x <= y
             IN  << SubSeq(s, i, k - 1) >> \o SplitFrom(s, sep, k + 1)

Split(s, sep) == SplitFrom(s, sep, 1)

\* strings.Join
RECURSIVE Join(_, _)
Join(parts, sep) ==
    IF parts = << >> THEN << >>
    ELSE IF Len(parts) = 1 THEN parts[1]
    ELSE parts[1] \o sep \o Join(Tail(parts), sep)

\* the byte-wise order of two strings, as sort.Strings compares them
StrLess(a, b) ==
    LET n == IF Len(a) < Len(b) THEN Len(a) ELSE Len(b)
        diff == { i \in 1..n : a[i] # b[i] }
    IN  IF diff = {} THEN Len(a) < Len(b)
        ELSE LET d == CHOOSE i \in diff : \A j \in diff : i <= j
             IN  Code[a[d]] < Code[b[d]]

\* sort.Strings: insertion of each element into the sorted rest
RECURSIVE SortStrings(_)
SortStrings(seq) ==
    IF seq = << >> THEN << >>
    ELSE LET rest == SortStrings(Tail(seq))
             x == seq[1]
             n == Cardinality({ i \in 1..Len(rest) : StrLess(rest[i], x) })
         IN  SubSeq(rest, 1, n) \o << x >> \o SubSeq(rest, n + 1, Len(rest))

SeqToSet(seq) == { seq[i] : i \in 1..Len(seq) }

(***************************************************************************)
(* Literals of the source.                                                 *)
(***************************************************************************)
kwCREATE == <<"C","R","E","A","T","E">>
kwTABLE == <<"T","A","B","L","E">>
kwIF == <<"I","F">>
kwNOT == <<"N","O","T">>
kwEXISTS == <<"E","X","I","S","T","S">>
kwPublic == <<"p","u","b","l","i","c">>
kwPublicDot == <<"p","u","b","l","i","c",".">>
kwCOMMENT == <<"C","O","M","M","E","N","T">>
kwON == <<"O","N">>
kwCOLUMN == <<"C","O","L","U","M","N">>
kwIS == <<"I","S">>
kwCreateTable == <<"C","R","E","A","T","E"," ","T","A","B","L","E">>
kwCommentOn == <<"C","O","M","M","E","N","T"," ","O","N">>
kwAlterTable == <<"A","L","T","E","R"," ","T","A","B","L","E">>
kwPrimaryKey == <<"P","R","I","M","A","R","Y"," ","K","E","Y">>
kwConstraint == <<"C","O","N","S","T","R","A","I","N","T">>
dashDash == <<"-","-">>
blockOpen == <<"/","*">>
blockClose == <<"*","/">>
semicolon == <<";">>

(***************************************************************************)
(* Regular-expression pieces.  A position is an index into s; 0 means the  *)
(* piece did not match.  Each piece is matched the way Go's regexp matches *)
(* it (leftmost, preferring the earlier alternative, greedy repetition).   *)
(***************************************************************************)
\* the literal lit at position i, letters compared case-insensitively ((?i)):
\* the position after it
LitCI(s, i, lit) ==
    IF i >= 1 /\ i + Len(lit) - 1 <= Len(s)
          /\ ToUpper(SubSeq(s, i, i + Len(lit) - 1)) = ToUpper(lit)
    THEN i + Len(lit) ELSE 0

\* the end of the maximal run, starting at i, of characters of the class
RunEnd(s, i, class) ==
    CHOOSE j \in i..(Len(s) + 1) :
        /\ \A k \in i..(j - 1) : s[k] \in class
        /\ (j = Len(s) + 1 \/ s[j] \notin class)

\* \s
SpaceChars == { c \in CharSet : IsSpace(c) }

\* \s+ at position i: the position after the run of whitespace
Ws1(s, i) ==
    IF i >= 1 /\ i <= Len(s) /\ IsSpace(s[i]) THEN RunEnd(s, i, SpaceChars) ELSE 0

\* "? at position i (an optional double quote, taken when present)
OptQuote(s, i) == IF i >= 1 /\ i <= Len(s) /\ s[i] = "\"" THEN i + 1 ELSE i

\* the first element of a sequence of optional results that is a result
FirstMatch(tries) ==
    LET hits == { k \in 1..Len(tries) : tries[k] # << >> }
    IN  IF hits = {} THEN << >>
        ELSE tries[CHOOSE k \in hits : \A j \in hits : k <= j]

TableNameChars == CharSet \ (SpaceChars \cup { "\"", "(" })

\* the capture of "?([^"\s(]+)"? at position j: << name >> or << >>
TableNameCapture(s, j) ==
    IF j = 0 THEN << >>
    ELSE IF RunEnd(s, OptQuote(s, j), TableNameChars) = OptQuote(s, j) THEN << >>
    ELSE << SubSeq(s, OptQuote(s, j), RunEnd(s, OptQuote(s, j), TableNameChars) - 1) >>

\* (?:"?public"?\.) at position j: the position after it
PublicPrefix(s, j) == LitCI(s, OptQuote(s, LitCI(s, OptQuote(s, j), kwPublic)), << "." >>)

\* (?:IF\s+NOT\s+EXISTS\s+) at position a: the position after it
IfNotExists(s, a) == Ws1(s, LitCI(s, Ws1(s, LitCI(s, Ws1(s, LitCI(s, a, kwIF)), kwNOT)), kwEXISTS))

\* the rest of tableNameRegex at position a, after CREATE\s+TABLE\s+: the
\* optional groups are tried present before absent
TableNameAfterKeyword(s, a, ine) ==
    LET starts == << PublicPrefix(s, ine), ine, PublicPrefix(s, a), a >>
    IN  FirstMatch([ k \in 1..4 |-> TableNameCapture(s, starts[k]) ])

\* tableNameRegex anchored at position i: << name >> or << >>
\*   (?i)CREATE\s+TABLE\s+(?:IF\s+NOT\s+EXISTS\s+)?(?:"?public"?\.)?"?([^"\s(]+)"?
TableNameAt(s, i, a) == IF a = 0 THEN << >> ELSE TableNameAfterKeyword(s, a, IfNotExists(s, a))

\* the position after CREATE\s+TABLE\s+ at position i
AfterCreateTable(s, i) == Ws1(s, LitCI(s, Ws1(s, LitCI(s, i, kwCREATE)), kwTABLE))

\* FindStringSubmatch: the match at the leftmost position that has one
tableNameRegex(s) ==
    FirstMatch([ i \in 1..Len(s) |-> TableNameAt(s, i, AfterCreateTable(s, i)) ])

\* fieldsRegex \((.*)\): from the first "(" to the last ")" after it
fieldsRegex(s) ==
    LET opens == { i \in 1..Len(s) : s[i] = "(" }
        closes == { i \in 1..Len(s) : s[i] = ")" }
    IN  IF opens = {} \/ closes = {} THEN << >>
        ELSE LET o == CHOOSE i \in opens : \A j \in opens : i <= j
                 c == CHOOSE i \in closes : \A j \in closes : i >= j
             IN  IF c > o THEN << SubSeq(s, o + 1, c - 1) >> ELSE << >>

NonSpaceChars == CharSet \ SpaceChars

\* ([^\s]+)\s+IS\s+'([^']*)' at position j, the target ending before e and
\* the quoted text starting at b: << target, text >> or << >>
CommentCapture(s, j, e, b, q) ==
    IF e = j \/ b = 0 THEN << >>
    ELSE IF RunEnd(s, b, CharSet \ { q }) > Len(s) THEN << >>
    ELSE << SubSeq(s, j, e - 1), SubSeq(s, b, RunEnd(s, b, CharSet \ { q }) - 1) >>

CommentTarget(s, j, e, q) ==
    CommentCapture(s, j, e, LitCI(s, Ws1(s, LitCI(s, Ws1(s, e), kwIS)), << q >>), q)

CommentRest(s, j, q) ==
    IF j = 0 \/ j > Len(s) THEN << >> ELSE CommentTarget(s, j, RunEnd(s, j, NonSpaceChars), q)

\* the rest of commentRegex at position a, after COMMENT\s+ON\s+, where kwT
\* and kwC are the positions after TABLE\s+ and COLUMN\s+: the optional
\* groups are tried present before absent
CommentAfterOn(s, a, kwT, kwC, q) ==
    LET starts == << LitCI(s, kwT, kwPublicDot), kwT, LitCI(s, kwC, kwPublicDot), kwC,
                     LitCI(s, a, kwPublicDot), a >>
    IN  FirstMatch([ k \in 1..6 |-> CommentRest(s, starts[k], q) ])

\* commentRegex anchored at position i, the text quoted by q: << target, text >> or << >>
\*   (?i)COMMENT\s+ON\s+(?:TABLE\s+|COLUMN\s+)?(?:public\.)?([^\s]+)\s+IS\s+'([^']*)'
CommentAt(s, i, a, q) ==
    IF a = 0 THEN << >>
    ELSE CommentAfterOn(s, a, Ws1(s, LitCI(s, a, kwTABLE)), Ws1(s, LitCI(s, a, kwCOLUMN)), q)

\* the position after COMMENT\s+ON\s+ at position i
AfterCommentOn(s, i) == Ws1(s, LitCI(s, Ws1(s, LitCI(s, i, kwCOMMENT)), kwON))

commentRegex(s, q) ==
    FirstMatch([ i \in 1..Len(s) |-> CommentAt(s, i, AfterCommentOn(s, i), q) ])

(***************************************************************************)
(* The SQL statement interpreters.                                         *)
(***************************************************************************)
\* parenCount when the loop of splitFields / extractType reads byte i: the
\* "(" before i less the ")" before i
ParenCount(s, i) ==
    Cardinality({ k \in 1..(i - 1) : s[k] = "(" }) - Cardinality({ k \in 1..(i - 1) : s[k] = ")" })

\* the k-th smallest element of a set of numbers
Nth(S, k) == CHOOSE x \in S : Cardinality({ y \in S : y < x }) = k - 1

\* splitFields without the parenthesis count: flushed at every ","
splitFieldsAtEveryComma(fields) == Split(fields, ",")

\* splitFields: the builder is flushed at every "," read with parenCount = 0,
\* and once more after the loop when it is not empty
splitFields(fields) ==
    LET cuts == { i \in 1..Len(fields) : fields[i] = "," /\ ParenCount(fields, i) = 0 }
        n == Cardinality(cuts)
        From(k) == IF k = 1 THEN 1 ELSE Nth(cuts, k - 1) + 1
        last == SubSeq(fields, From(n + 1), Len(fields))
    IN  [ k \in 1..n |-> SubSeq(fields, From(k), Nth(cuts, k) - 1) ]
            \o (IF Len(last) > 0 THEN << last >> ELSE << >>)

\* extractType: every byte is written until a " " is read with parenCount = 0
extractType(s) ==
    LET stops == { i \in 1..Len(s) : s[i] = " " /\ ParenCount(s, i) = 0 }
        end == IF stops = {} THEN Len(s) ELSE (CHOOSE i \in stops : \A j \in stops : i <= j) - 1
    IN  TrimSpace(SubSeq(s, 1, end))

\* parseFieldDef: << field >>, or << >> for nil
parseFieldDef(fieldDef0) ==
    LET fieldDef == TrimSpace(fieldDef0)
        parts == Fields(fieldDef)
    IN  IF Len(parts) < 2 THEN << >>
        ELSE LET fieldName == Trim(parts[1], { "\"" })
                 typeStart == Index(fieldDef, parts[2])
                 restDef == SubSeq(fieldDef, typeStart, Len(fieldDef))
             IN  << [ FieldName |-> fieldName, FieldType |-> extractType(restDef), Comment |-> << >> ] >>

\* whether parseCreateTableByString skips the clause (lines 489-492)
IsSkippedClause(fieldDef) ==
    \/ fieldDef = << >>
    \/ HasPrefix(ToUpper(fieldDef), kwPrimaryKey)
    \/ HasPrefix(ToUpper(fieldDef), kwConstraint)

\* the loop of parseCreateTableByString over the clauses
RECURSIVE FieldsOfClauses(_)
FieldsOfClauses(fieldDefs) ==
    IF fieldDefs = << >> THEN << >>
    ELSE LET fieldDef == TrimSpace(fieldDefs[1])
         IN  (IF IsSkippedClause(fieldDef) THEN << >> ELSE parseFieldDef(fieldDef))
                 \o FieldsOfClauses(Tail(fieldDefs))

\* the registry with key name set to table (a Go map assignment)
MapPut(db, name, table) ==
    [ k \in (DOMAIN db) \cup { name } |-> IF k = name THEN table ELSE db[k] ]

\* parseCreateTableByString after the two regular expressions matched
StoreTable(db, tableName, fields) ==
    [ err |-> FALSE,
      db |-> MapPut(db, tableName, [ TableName |-> tableName, Comment |-> << >>, Fields |-> fields ]) ]

\* parseCreateTableByString storing the table before the field list is looked for
CreateTableMatchedStoringFirst(db, nameMatch, bodyMatch) ==
    IF nameMatch = << >> THEN [ err |-> TRUE, db |-> db ]
    ELSE IF bodyMatch = << >>
    THEN [ err |-> TRUE,
           db |-> StoreTable(db, TrimPrefix(Trim(nameMatch[1], { "\"" }), kwPublicDot), << >>).db ]
    ELSE StoreTable(db, TrimPrefix(Trim(nameMatch[1], { "\"" }), kwPublicDot),
                    FieldsOfClauses(splitFields(bodyMatch[1])))

CreateTableMatched(db, nameMatch, bodyMatch) ==
    IF nameMatch = << >> THEN [ err |-> TRUE, db |-> db ]
    ELSE IF bodyMatch = << >> THEN [ err |-> TRUE, db |-> db ]
    ELSE StoreTable(db, TrimPrefix(Trim(nameMatch[1], { "\"" }), kwPublicDot),
                    FieldsOfClauses(splitFields(bodyMatch[1])))

\* parseCreateTableByString: [ err, db ], the error returned and the registry left
parseCreateTableByString(db, stmt) ==
    CreateTableMatched(db, tableNameRegex(stmt), fieldsRegex(stmt))

\* decodeComment: the payloads of the model are ASCII text, which is valid
\* UTF-8, and valid UTF-8 is returned as it is (lines 656-658)
decodeComment(s) == s

\* the loop of parseCommentByString without the test of the field's name
SetFieldCommentOnAll(fields, fieldName, comment) ==
    [ i \in 1..Len(fields) |-> [ fields[i] EXCEPT !.Comment = comment ] ]

\* the loop of parseCommentByString over table.Fields: the first field named
\* fieldName gets the comment (break)
SetFieldComment(fields, fieldName, comment) ==
    LET hits == { i \in 1..Len(fields) : fields[i].FieldName = fieldName }
    IN  IF hits = {} THEN fields
        ELSE LET first == CHOOSE i \in hits : \A j \in hits : i <= j
             IN  [ fields EXCEPT ![first].Comment = comment ]

\* the table branch storing a new entry also when the table is known
CommentOnTableReplacing(db, t, comment) ==
    [ err |-> FALSE,
      db |-> MapPut(db, t, [ TableName |-> t, Comment |-> comment, Fields |-> << >> ]) ]

\* the table branch of parseCommentByString (lines 614-628)
CommentOnTable(db, t, comment) ==
    [ err |-> FALSE,
      db |-> IF t \in DOMAIN db
             THEN MapPut(db, t, [ db[t] EXCEPT !.Comment = comment ])
             ELSE MapPut(db, t, [ TableName |-> t, Comment |-> comment, Fields |-> << >> ]) ]

\* the field branch adding an entry for a table the registry does not hold
CommentOnFieldCreating(db, tableName, fieldName, comment) ==
    [ err |-> FALSE,
      db |-> IF tableName \in DOMAIN db
             THEN MapPut(db, tableName,
                      [ db[tableName] EXCEPT !.Fields = SetFieldComment(@, fieldName, comment) ])
             ELSE MapPut(db, tableName, [ TableName |-> tableName, Comment |-> << >>, Fields |-> << >> ]) ]

\* the field branch of parseCommentByString (lines 641-651)
CommentOnField(db, tableName, fieldName, comment) ==
    [ err |-> FALSE,
      db |-> IF tableName \in DOMAIN db
             THEN MapPut(db, tableName,
                      [ db[tableName] EXCEPT !.Fields = SetFieldComment(@, fieldName, comment) ])
             ELSE db ]

CommentOnParts(db, parts, comment) ==
    CommentOnField(db, Trim(TrimPrefix(parts[Len(parts) - 1], kwPublicDot), { "\"" }),
                   Trim(parts[Len(parts)], { "\"" }), comment)

CommentOnTarget(db, target, comment) ==
    IF ~Contains(target, << "." >>)
    THEN CommentOnTable(db, TrimPrefix(target, kwPublicDot), comment)
    ELSE CommentOnParts(db, Split(target, "."), comment)

CommentMatched(db, matches) ==
    IF matches = << >> THEN [ err |-> TRUE, db |-> db ]
    ELSE CommentOnTarget(db, Trim(matches[1], { "\"" }), decodeComment(matches[2]))

\* the single-quoted form, and the double-quoted one when it does not match
CommentMatch(single, stmt) == IF single # << >> THEN single ELSE commentRegex(stmt, "\"")

\* parseCommentByString: [ err, db ]
parseCommentByString(db, stmt) ==
    CommentMatched(db, CommentMatch(commentRegex(stmt, "'"), stmt))

isRelevantStatement(stmt) ==
    LET upperStmt == ToUpper(TrimSpace(stmt))
    IN  \/ HasPrefix(upperStmt, kwCreateTable)
        \/ HasPrefix(upperStmt, kwCommentOn)
        \/ HasPrefix(upperStmt, kwAlterTable)

\* splitSQLStatements after the loop (lines 443-452)
LastStatement(statements, lastStmt, closed) ==
    IF lastStmt # << >> /\ isRelevantStatement(closed) THEN Append(statements, closed) ELSE statements

\* the line with its inline comment removed (lines 417-420)
StripInline(trimmedLine, idx) ==
    IF idx > 0 THEN TrimSpace(SubSeq(trimmedLine, 1, idx - 1)) ELSE trimmedLine

IsSkippedLine(trimmedLine, stripped) ==
    \/ trimmedLine = << >>
    \/ HasPrefix(trimmedLine, dashDash)
    \/ (Contains(trimmedLine, blockOpen) /\ ~Contains(trimmedLine, blockClose))
    \/ stripped = << >>

\* splitSQLStatements: the loop over the lines (the text split at "\n"), from
\* line i on, with the builder's content currentStmt and the statements so far
RECURSIVE SplitLinesLoop(_, _, _, _)
SplitLine(lines, i, currentStmt, statements, trimmedLine, stripped) ==
    IF IsSkippedLine(trimmedLine, stripped)
    THEN SplitLinesLoop(lines, i + 1, currentStmt, statements)
    ELSE IF HasSuffix(stripped, semicolon)
    THEN SplitLinesLoop(lines, i + 1, << >>,
             LET stmt == (IF Len(currentStmt) > 0 THEN currentStmt \o << " " >> ELSE << >>) \o stripped
             IN  IF isRelevantStatement(stmt) THEN Append(statements, stmt) ELSE statements)
    ELSE SplitLinesLoop(lines, i + 1,
             (IF Len(currentStmt) > 0 THEN currentStmt \o << " " >> ELSE << >>) \o stripped, statements)

TrimmedLine(lines, i, currentStmt, statements, trimmedLine) ==
    SplitLine(lines, i, currentStmt, statements, trimmedLine,
              StripInline(trimmedLine, Index(trimmedLine, dashDash)))

StatementEnd(lastStmt) == IF HasSuffix(lastStmt, semicolon) THEN lastStmt ELSE lastStmt \o semicolon

SplitLinesLoop(lines, i, currentStmt, statements) ==
    IF i > Len(lines)
    THEN LastStatement(statements, TrimSpace(currentStmt), StatementEnd(TrimSpace(currentStmt)))
    ELSE TrimmedLine(lines, i, currentStmt, statements, TrimSpace(lines[i]))

splitSQLStatements(lines) == SplitLinesLoop(lines, 1, << >>, << >>)

Outcome(r) == [ db |-> r.db, warned |-> r.err ]

DispatchStatement(db, stmt, upper) ==
    IF stmt = << >> THEN [ db |-> db, warned |-> FALSE ]
    ELSE IF HasPrefix(upper, kwCreateTable) THEN Outcome(parseCreateTableByString(db, stmt))
    ELSE IF HasPrefix(upper, kwCommentOn) THEN Outcome(parseCommentByString(db, stmt))
    ELSE [ db |-> db, warned |-> FALSE ]

TrimmedStatement(db, stmt) == DispatchStatement(db, stmt, ToUpper(stmt))

\* one turn of the loop of parseSQLFile (lines 365-388) on statement stmt0:
\* [ db, warned ], the registry left and whether a warning was printed
ParseStatement(db, stmt0) == TrimmedStatement(db, TrimSpace(stmt0))

(***************************************************************************)
(* The source annotation scanner.  A source file is given as go/parser     *)
(* returns it: a sequence of declaration groups (ast.GenDecl)              *)
(*   [ Tok, Doc, Specs ]       Doc: the raw text of each line of the doc   *)
(*                             comment (<< >>: no doc comment)             *)
(* of value specs (ast.ValueSpec)                                          *)
(*   [ Names, Type, Values, Doc, Comment ]                                 *)
(* where Type is [ kind, Name ] with kind "none", "Ident" or "Other",      *)
(* each value is [ kind, text, X, Sel ] and Doc and Comment hold the raw   *)
(* text of a one-line comment, << raw >>, or << >> for nil.                *)
(***************************************************************************)
aiTag == <<"@","a","i">>
aiMarker == <<"/","/"," ","@","a","i">>
slashSlash == <<"/","/">>
unknownName == <<"U","n","k","n","o","w","n">>

\* strings.Replace(s, old, "", 1)
RemoveFirst(s, old) ==
    LET i == Index(s, old)
    IN  IF i = 0 THEN s ELSE SubSeq(s, 1, i - 1) \o SubSeq(s, i + Len(old), Len(s))

\* ast.CommentGroup.Text of a one-line // comment: the marker and the first
\* space after it are removed (the final newline falls to TrimSpace)
CommentText(raw) ==
    LET body == TrimPrefix(raw, slashSlash)
    IN  TrimSpace(IF HasPrefix(body, << " " >>) THEN Tail(body) ELSE body)

\* splitCamelCase: a new word starts at every upper-case letter
splitCamelCase(s) ==
    LET starts == { i \in 2..Len(s) : IsUpper(s[i]) } \cup (IF Len(s) > 0 THEN { 1 } ELSE {})
        n == Cardinality(starts)
        End(k) == IF k = n THEN Len(s) ELSE Nth(starts, k + 1) - 1
    IN  [ k \in 1..n |-> SubSeq(s, Nth(starts, k), End(k)) ]

stopWords ==
    { <<"t","h","e">>, <<"a">>, <<"a","n">>, <<"a","n","d">>, <<"o","r">>,
      <<"i","n">>, <<"o","n">>, <<"a","t">>, <<"t","o">>, <<"f","o","r">> }

keywordCutset == { ",", ".", "(", ")", "[", "]", "{", "}", "\"", "'" }

\* extractKeywords: the words kept, as a set (the caller puts them in a map)
extractKeywords(text) ==
    LET words == Fields(text)
        Norm(w) == ToLower(Trim(w, keywordCutset))
    IN  { Norm(words[i]) : i \in { j \in 1..Len(words) :
                                     Norm(words[j]) \notin stopWords /\ Len(Norm(words[j])) > 2 } }

\* the elements of a set of strings in ascending order (sort.Strings)
SortedStrings(S) ==
    [ k \in 1..Cardinality(S) |->
        CHOOSE x \in S : Cardinality({ y \in S : StrLess(y, x) }) = k - 1 ]

LowerWords(s) == { ToLower(w) : w \in SeqToSet(splitCamelCase(s)) }

generateTags(group) ==
    LET fromName == LowerWords(group.Name)
        fromDesc == extractKeywords(group.Description)
        fromItems == UNION { LowerWords(group.Items[i].Name) \cup extractKeywords(group.Items[i].Comment)
                               : i \in 1..Len(group.Items) }
    IN  SortedStrings(fromName \cup fromDesc \cup fromItems)

inferCategory(group) ==
    LET name == ToLower(group.Name)
        Has(w) == Contains(name, w)
    IN  IF Has(<<"s","t","a","t","u","s">>) \/ Has(<<"s","t","a","t","e">>) THEN "status"
        ELSE IF Has(<<"t","y","p","e">>) THEN "type"
        ELSE IF Has(<<"f","l","a","g">>) THEN "flag"
        ELSE IF Has(<<"m","o","d","e">>) THEN "mode"
        ELSE IF Has(<<"l","e","v","e","l">>) THEN "level"
        ELSE "other"

getEnumGroupName(gen) ==
    IF Len(gen.Specs) = 1 /\ gen.Specs[1].Type.kind = "Ident"
    THEN gen.Specs[1].Type.Name
    ELSE IF Len(gen.Specs) > 0 /\ Len(gen.Specs[1].Names) > 0
    THEN LET name == gen.Specs[1].Names[1]
             uppers == { i \in 1..Len(name) : IsUpper(name[i]) }
         IN  IF uppers = {} THEN name
             ELSE SubSeq(name, 1, (CHOOSE i \in uppers : \A j \in uppers : i >= j) - 1)
    ELSE unknownName

\* the value recorded for name i of a spec: << text >>, or << >> for nil
ItemValue(vspec, i) ==
    IF i > Len(vspec.Values) THEN << >>
    ELSE LET v == vspec.Values[i]
         IN  IF v.kind \in { "BasicLit", "Ident" } THEN << v.text >>
             ELSE IF v.kind = "SelectorExpr" /\ v.X # << >> THEN << v.X \o << "." >> \o v.Sel >>
             ELSE << >>

\* the comment recorded with the leading documentation comment tested first
ItemCommentDocFirst(vspec, groupComment) ==
    IF vspec.Doc # << >> THEN CommentText(vspec.Doc[1])
    ELSE IF vspec.Comment # << >> THEN CommentText(vspec.Comment[1])
    ELSE IF groupComment # << >> THEN groupComment
    ELSE << >>

\* the comment recorded for the names of a spec (lines 334-341)
ItemComment(vspec, groupComment) ==
    IF vspec.Comment # << >> THEN CommentText(vspec.Comment[1])
    ELSE IF vspec.Doc # << >> THEN CommentText(vspec.Doc[1])
    ELSE IF groupComment # << >> THEN groupComment
    ELSE << >>

ItemsOfSpec(vspec, groupComment) ==
    [ i \in 1..Len(vspec.Names) |->
        [ Name |-> vspec.Names[i], Value |-> ItemValue(vspec, i),
          Comment |-> ItemComment(vspec, groupComment) ] ]

RECURSIVE ItemsOfSpecs(_, _)
ItemsOfSpecs(specs, groupComment) ==
    IF specs = << >> THEN << >>
    ELSE ItemsOfSpec(specs[1], groupComment) \o ItemsOfSpecs(Tail(specs), groupComment)

parseEnumItems(gen, groupComment) == ItemsOfSpecs(gen.Specs, groupComment)

\* parseEnumGroup: << group >>, or << >> for nil
parseEnumGroup(gen, docComment, filePath) ==
    LET items == parseEnumItems(gen, docComment)
    IN  IF Len(items) > 0
        THEN << [ Name |-> getEnumGroupName(gen) \o << " " >> \o docComment,
                  Description |-> docComment, File |-> filePath, Type |-> gen.Tok,
                  Items |-> items, Tags |-> << >>, Category |-> "" ] >>
        ELSE << >>

\* the new items whose name the map existingItems does not hold
UnseenItems(new, existingItems) ==
    LET IsUnseen(item) == item.Name \notin existingItems
    IN  SelectSeq(new, IsUnseen)

\* the new tags the map existingTags does not hold
UnseenTags(new, existingTags) ==
    LET IsUnseen(tag) == tag \notin existingTags
    IN  SelectSeq(new, IsUnseen)

newline == << "\n" >>

\* mergeEnumGroup without the test of existingItems: every new item is appended
mergeEnumGroupAppendAll(existing, new) ==
    [ existing EXCEPT
        !.Items = existing.Items \o new.Items,
        !.Tags = SortedStrings(SeqToSet(existing.Tags) \cup SeqToSet(new.Tags)) ]

\* mergeEnumGroup without the final sort.Strings(existing.Tags)
mergeEnumGroupUnsorted(existing, new) ==
    [ existing EXCEPT
        !.Items = existing.Items \o UnseenItems(new.Items, { existing.Items[i].Name : i \in 1..Len(existing.Items) }),
        !.Tags = existing.Tags \o UnseenTags(new.Tags, SeqToSet(existing.Tags)) ]

\* mergeEnumGroup without the comparison of the descriptions: the new
\* description is always appended on a new line
mergeEnumGroupJoiningDescriptions(existing, new) ==
    [ existing EXCEPT
        !.Description = existing.Description \o newline \o new.Description,
        !.Items = existing.Items \o UnseenItems(new.Items, { existing.Items[i].Name : i \in 1..Len(existing.Items) }),
        !.Tags = SortStrings(existing.Tags \o UnseenTags(new.Tags, SeqToSet(existing.Tags))) ]

\* mergeEnumGroup: the existing group after the merge
mergeEnumGroup(existing, new) ==
    LET existingItems == { existing.Items[i].Name : i \in 1..Len(existing.Items) }
        existingTags == SeqToSet(existing.Tags)
    IN  [ existing EXCEPT
            !.Description = IF new.Description # << >> /\ existing.Description # new.Description
                            THEN existing.Description \o newline \o new.Description
                            ELSE existing.Description,
            !.Items = existing.Items \o UnseenItems(new.Items, existingItems),
            !.Tags = SortStrings(existing.Tags \o UnseenTags(new.Tags, existingTags)) ]

\* parseFile, lines 143-148: merge into the group of that name, or add
StoreGroup(enums, group) ==
    IF group.Name \in DOMAIN enums
    THEN MapPut(enums, group.Name, mergeEnumGroup(enums[group.Name], group))
    ELSE MapPut(enums, group.Name, group)

Categorized(group) == [ group EXCEPT !.Category = inferCategory(group) ]

Tagged(group) == [ group EXCEPT !.Tags = generateTags(group) ]

\* parseFile, lines 136-141: the group with its tags and category
Completed(parsed) == IF parsed = << >> THEN << >> ELSE << Categorized(Tagged(parsed[1])) >>

\* the first line of the doc comment that contains the tag: << line >> or << >>
FirstMarked(doc) ==
    FirstMatch([ i \in 1..Len(doc) |-> IF Contains(doc[i], aiTag) THEN << doc[i] >> ELSE << >> ])

MarkedGroup(gen, filePath, marked) ==
    IF marked = << >> THEN << >>
    ELSE Completed(parseEnumGroup(gen, TrimSpace(RemoveFirst(marked[1], aiMarker)), filePath))

\* the group parseFile makes of a declaration group: << group >>, or << >>
\* when the declaration is not annotated or has no members
ScannedGroup(gen, filePath) ==
    IF gen.Tok \notin { "const", "var" } THEN << >>
    ELSE MarkedGroup(gen, filePath, FirstMarked(gen.Doc))

StoreScanned(enums, scanned) == IF scanned = << >> THEN enums ELSE StoreGroup(enums, scanned[1])

\* the body of the loop of parseFile for one declaration group: the registry left
ParseDecl(enums, gen, filePath) == StoreScanned(enums, ScannedGroup(gen, filePath))

(***************************************************************************)
(* The renderer.  The document is kept as its sequence of lines, each      *)
(* [ kind, cells ]: the line's fixed text is its kind and cells are the    *)
(* strings formatted into it.                                              *)
(***************************************************************************)
Line(kind, cells) == [ kind |-> kind, cells |-> cells ]

dash == << "-" >>

\* the lines of one enumeration group (lines 724-745)
EnumLines(enum) ==
    << Line("h2", << enum.Name >>) >>
        \o (IF Len(enum.Tags) > 0 THEN << Line("tags", enum.Tags), Line("blank", << >>) >> ELSE << >>)
        \o << Line("enumHeader", << >>) >>
        \o [ i \in 1..Len(enum.Items) |->
               Line("row", << enum.Items[i].Name,
                              IF enum.Items[i].Value # << >> THEN enum.Items[i].Value[1] ELSE << >>,
                              enum.Items[i].Comment >>) ]
        \o << Line("blank", << >>) >>

\* the lines of one table (lines 760-777)
TableLines(table, tableName) ==
    << Line("h2", IF table.Comment # << >> THEN << tableName, table.Comment >> ELSE << tableName >>) >>
        \o << Line("tableHeader", << >>) >>
        \o [ i \in 1..Len(table.Fields) |->
               Line("row", << table.Fields[i].FieldName, table.Fields[i].FieldType,
                              IF table.Fields[i].Comment = << >> THEN dash
                              ELSE table.Fields[i].Comment >>) ]
        \o << Line("blank", << >>) >>

RECURSIVE Concat(_)
Concat(seqs) == IF seqs = << >> THEN << >> ELSE seqs[1] \o Concat(Tail(seqs))

\* the keys of p.dbComments without the sort: here in descending order
TableNamesDescending(dbMap) ==
    [ k \in 1..Cardinality(DOMAIN dbMap) |->
        SortedStrings(DOMAIN dbMap)[Cardinality(DOMAIN dbMap) + 1 - k] ]

\* ToMarkdown, lines 753-757: the keys of p.dbComments, sorted
TableNames(dbMap) == SortedStrings(DOMAIN dbMap)

\* ToMarkdown, lines 751-779: the table section
TableSection(dbMap, tableNames) ==
    << Line("h1", << <<"t","a","b","l","e","s">> >>) >>
        \o Concat([ i \in 1..Len(tableNames) |-> TableLines(dbMap[tableNames[i]], tableNames[i]) ])

\* ToMarkdown, with the groups visited in the order the range over the map
\* p.enums yields them
RenderMarkdown(enumMap, dbMap, order) ==
    (IF DOMAIN enumMap # {}
     THEN << Line("h1", << <<"e","n","u","m","s">> >>) >>
              \o Concat([ i \in 1..Len(order) |-> EnumLines(enumMap[order[i]]) ])
     ELSE << >>)
    \o
    (IF DOMAIN dbMap # {} THEN TableSection(dbMap, TableNames(dbMap)) ELSE << >>)

\* the orders in which a range over a Go map may yield its keys
IterationOrders(S) ==
    { f \in [ 1..Cardinality(S) -> S ] : \A i, j \in 1..Cardinality(S) : f[i] = f[j] => i = j }

(***************************************************************************)
(* Inputs: the lines of SQL files.                                         *)
(***************************************************************************)
\* CREATE TABLE "public"."t"("id" bigint NOT NULL, "name" character varying(50));
sqlCreateT ==
    <<"C","R","E","A","T","E"," ","T","A","B","L","E"," ","\"","p","u","b","l","i","c","\"",".","\"","t","\"","(","\"","i","d","\""," ","b","i","g","i","n","t"," ","N","O","T"," ","N","U","L","L",","," ","\"","n","a","m","e","\""," ","c","h","a","r","a","c","t","e","r"," ","v","a","r","y","i","n","g","(","5","0",")",")",";">>

\* CREATE TABLE u (a numeric(10,2), constraint_no int, PRIMARY KEY (a));
sqlCreateU ==
    <<"C","R","E","A","T","E"," ","T","A","B","L","E"," ","u"," ","(","a"," ","n","u","m","e","r","i","c","(","1","0",",","2",")",","," ","c","o","n","s","t","r","a","i","n","t","_","n","o"," ","i","n","t",","," ","P","R","I","M","A","R","Y"," ","K","E","Y"," ","(","a",")",")",";">>

\* COMMENT ON COLUMN "public"."t"."name" IS 'xm';
sqlColName ==
    <<"C","O","M","M","E","N","T"," ","O","N"," ","C","O","L","U","M","N"," ","\"","p","u","b","l","i","c","\"",".","\"","t","\"",".","\"","n","a","m","e","\""," ","I","S"," ","'","x","m","'",";">>

\* COMMENT ON COLUMN t.id IS 'pk';
sqlColId ==
    <<"C","O","M","M","E","N","T"," ","O","N"," ","C","O","L","U","M","N"," ","t",".","i","d"," ","I","S"," ","'","p","k","'",";">>

\* COMMENT ON TABLE t IS 'tt';
sqlTabBare ==
    <<"C","O","M","M","E","N","T"," ","O","N"," ","T","A","B","L","E"," ","t"," ","I","S"," ","'","t","t","'",";">>

\* COMMENT ON TABLE public.t IS 'tp';
sqlTabPublic ==
    <<"C","O","M","M","E","N","T"," ","O","N"," ","T","A","B","L","E"," ","p","u","b","l","i","c",".","t"," ","I","S"," ","'","t","p","'",";">>

\* COMMENT ON TABLE "public"."t" IS 'tq';
sqlTabQuoted ==
    <<"C","O","M","M","E","N","T"," ","O","N"," ","T","A","B","L","E"," ","\"","p","u","b","l","i","c","\"",".","\"","t","\""," ","I","S"," ","'","t","q","'",";">>

\* COMMENT ON TABLE app.t IS 'ta';
sqlTabSchema ==
    <<"C","O","M","M","E","N","T"," ","O","N"," ","T","A","B","L","E"," ","a","p","p",".","t"," ","I","S"," ","'","t","a","'",";">>

\* COMMENT ON TABLE t IS tt;
sqlBadComment ==
    <<"C","O","M","M","E","N","T"," ","O","N"," ","T","A","B","L","E"," ","t"," ","I","S"," ","t","t",";">>

\* -- schema of t
sqlNote ==
    <<"-","-"," ","s","c","h","e","m","a"," ","o","f"," ","t">>

\* CREATE TABLE t;
sqlBadCreate ==
    <<"C","R","E","A","T","E"," ","T","A","B","L","E"," ","t",";">>

\* CREATE TABLE (a int);
sqlNoName ==
    <<"C","R","E","A","T","E"," ","T","A","B","L","E"," ","(","a"," ","i","n","t",")",";">>

\* COMMENT ON COLUMN t.zz IS 'no';
sqlColMissing ==
    <<"C","O","M","M","E","N","T"," ","O","N"," ","C","O","L","U","M","N"," ","t",".","z","z"," ","I","S"," ","'","n","o","'",";">>

LinePool ==
    { sqlCreateT, sqlCreateU, sqlColName, sqlColId, sqlTabBare, sqlTabPublic, sqlTabQuoted, sqlTabSchema,
      sqlBadComment, sqlBadCreate, sqlNoName, sqlColMissing, sqlNote }

(***************************************************************************)
(* Inputs: lines of SQL files that the splitter cuts, joins or strips.     *)
(***************************************************************************)
\* COMMENT ON TABLE t IS 'a--b';
sqlDashInQuote ==
    <<"C","O","M","M","E","N","T"," ","O","N"," ","T","A","B","L","E"," ","t"," ","I","S"," ","'","a","-","-","b","'",";">>

\* COMMENT ON TABLE t IS 'tt'; COMMENT ON TABLE u IS 'uu';
sqlTwoOnLine ==
    <<"C","O","M","M","E","N","T"," ","O","N"," ","T","A","B","L","E"," ","t"," ","I","S"," ","'","t","t","'",";"," ","C","O","M","M","E","N","T"," ","O","N"," ","T","A","B","L","E"," ","u"," ","I","S"," ","'","u","u","'",";">>

\* COMMENT ON TABLE t /* x */ IS 'tt';
sqlBlockInline ==
    <<"C","O","M","M","E","N","T"," ","O","N"," ","T","A","B","L","E"," ","t"," ","/","*"," ","x"," ","*","/"," ","I","S"," ","'","t","t","'",";">>

\* COMMENT ON TABLE t IS 'tt'; -- note
sqlTrailing ==
    <<"C","O","M","M","E","N","T"," ","O","N"," ","T","A","B","L","E"," ","t"," ","I","S"," ","'","t","t","'",";"," ","-","-"," ","n","o","t","e">>

\* CREATE TABLE u (
sqlOpenCreate ==
    <<"C","R","E","A","T","E"," ","T","A","B","L","E"," ","u"," ","(">>

\*   a int);
sqlCloseCreate ==
    <<" "," ","a"," ","i","n","t",")",";">>

SplitPool ==
    { sqlCreateT, sqlTabBare, sqlNote, sqlDashInQuote, sqlTwoOnLine, sqlBlockInline, sqlTrailing,
      sqlOpenCreate, sqlCloseCreate }

(***************************************************************************)
(* Inputs: annotated declaration groups of source files.                   *)
(***************************************************************************)
NoType == [ kind |-> "none", Name |-> << >> ]

IdentType(name) == [ kind |-> "Ident", Name |-> name ]

BasicLit(text) == [ kind |-> "BasicLit", text |-> text, X |-> << >>, Sel |-> << >> ]

Ident(text) == [ kind |-> "Ident", text |-> text, X |-> << >>, Sel |-> << >> ]

SelectorExpr(x, sel) == [ kind |-> "SelectorExpr", text |-> << >>, X |-> x, Sel |-> sel ]

ValueSpec(names, type, values, doc, comment) ==
    [ Names |-> names, Type |-> type, Values |-> values, Doc |-> doc, Comment |-> comment ]

GenDecl(tok, doc, specs) == [ Tok |-> tok, Doc |-> doc, Specs |-> specs ]

\* // @ai st
\* const (
\*     StA = 1 // one
\*     StB = 2
\* )
declSt ==
    GenDecl("const", << <<"/","/"," ","@","a","i"," ","s","t">> >>,
        << ValueSpec(<< <<"S","t","A">> >>, NoType, << BasicLit(<<"1">>) >>, << >>, << <<"/","/"," ","o","n","e">> >>),
           ValueSpec(<< <<"S","t","B">> >>, NoType, << BasicLit(<<"2">>) >>, << >>, << >>) >>)

\* // @ai st
\* const (
\*     StB = 5 // five
\*     StC = 3
\* )
declStMore ==
    GenDecl("const", << <<"/","/"," ","@","a","i"," ","s","t">> >>,
        << ValueSpec(<< <<"S","t","B">> >>, NoType, << BasicLit(<<"5">>) >>, << >>, << <<"/","/"," ","f","i","v","e">> >>),
           ValueSpec(<< <<"S","t","C">> >>, NoType, << BasicLit(<<"3">>) >>, << >>, << >>) >>)

\* // @ai st
\* const (
\*     StX = iota
\*     _
\*     _
\* )
declStBlank ==
    GenDecl("const", << <<"/","/"," ","@","a","i"," ","s","t">> >>,
        << ValueSpec(<< <<"S","t","X">> >>, NoType, << Ident(<<"i","o","t","a">>) >>, << >>, << >>),
           ValueSpec(<< <<"_">> >>, NoType, << >>, << >>, << >>),
           ValueSpec(<< <<"_">> >>, NoType, << >>, << >>, << >>) >>)

\* // note
\* // @ai mode
\* var Cur Mode = x.Y // cm
declMode ==
    GenDecl("var", << <<"/","/"," ","n","o","t","e">>, <<"/","/"," ","@","a","i"," ","m","o","d","e">> >>,
        << ValueSpec(<< <<"C","u","r">> >>, IdentType(<<"M","o","d","e">>),
                     << SelectorExpr(<<"x">>, <<"Y">>) >>, << >>, << <<"/","/"," ","c","m">> >>) >>)

\* // @ai lv
\* const (
\*     // lead
\*     LvA = 1
\*     // lead
\*     LvB = 2 // tb
\* )
declLv ==
    GenDecl("const", << <<"/","/"," ","@","a","i"," ","l","v">> >>,
        << ValueSpec(<< <<"L","v","A">> >>, NoType, << BasicLit(<<"1">>) >>, << <<"/","/"," ","l","e","a","d">> >>, << >>),
           ValueSpec(<< <<"L","v","B">> >>, NoType, << BasicLit(<<"2">>) >>, << <<"/","/"," ","l","e","a","d">> >>,
                     << <<"/","/"," ","t","b">> >>) >>)

\* // plain
\* const Pa = 1
declPlain ==
    GenDecl("const", << <<"/","/"," ","p","l","a","i","n">> >>,
        << ValueSpec(<< <<"P","a">> >>, NoType, << BasicLit(<<"1">>) >>, << >>, << >>) >>)

\* // @ai
\* const (
\*     BaX = 1
\*     BaY = 2 // y
\* )
declBare ==
    GenDecl("const", << <<"/","/"," ","@","a","i">> >>,
        << ValueSpec(<< <<"B","a","X">> >>, NoType, << BasicLit(<<"1">>) >>, << >>, << >>),
           ValueSpec(<< <<"B","a","Y">> >>, NoType, << BasicLit(<<"2">>) >>, << >>, << <<"/","/"," ","y">> >>) >>)

\* // @ai cap
\* const Max = 9
declCap ==
    GenDecl("const", << <<"/","/"," ","@","a","i"," ","c","a","p">> >>,
        << ValueSpec(<< <<"M","a","x">> >>, NoType, << BasicLit(<<"9">>) >>, << >>, << >>) >>)

\* // @ai low
\* var cur = 1
declLow ==
    GenDecl("var", << <<"/","/"," ","@","a","i"," ","l","o","w">> >>,
        << ValueSpec(<< <<"c","u","r">> >>, NoType, << BasicLit(<<"1">>) >>, << >>, << >>) >>)

\* // @ai st on off
\* const (
\*     StP = 1
\*     StQ = 2 // q
\* )
declWords ==
    GenDecl("const", << <<"/","/"," ","@","a","i"," ","s","t"," ","o","n"," ","o","f","f">> >>,
        << ValueSpec(<< <<"S","t","P">> >>, NoType, << BasicLit(<<"1">>) >>, << >>, << >>),
           ValueSpec(<< <<"S","t","Q">> >>, NoType, << BasicLit(<<"2">>) >>, << >>, << <<"/","/"," ","q">> >>) >>)

DeclPool == { declSt, declStMore, declStBlank, declMode, declLv, declBare, declCap, declLow, declPlain }

(***************************************************************************)
(* Inputs: the clauses of a CREATE TABLE statement's column list.          *)
(***************************************************************************)
\* "id" bigint NOT NULL
clId ==
    <<"\"","i","d","\""," ","b","i","g","i","n","t"," ","N","O","T"," ","N","U","L","L">>

\*  "name" character varying(50)
clName ==
    <<" ","\"","n","a","m","e","\""," ","c","h","a","r","a","c","t","e","r"," ","v","a","r","y","i","n","g","(","5","0",")">>

\*  price numeric(10,2)
clPrice ==
    <<" ","p","r","i","c","e"," ","n","u","m","e","r","i","c","(","1","0",",","2",")">>

\*  rate decimal(8, 2) DEFAULT 0
clRate ==
    <<" ","r","a","t","e"," ","d","e","c","i","m","a","l","(","8",","," ","2",")"," ","D","E","F","A","U","L","T"," ","0">>

\*  PRIMARY KEY ("id")
clPrimaryKey ==
    <<" ","P","R","I","M","A","R","Y"," ","K","E","Y"," ","(","\"","i","d","\"",")">>

\*  CONSTRAINT pk PRIMARY KEY ("id")
clConstraint ==
    <<" ","C","O","N","S","T","R","A","I","N","T"," ","p","k"," ","P","R","I","M","A","R","Y"," ","K","E","Y"," ","(","\"","i","d","\"",")">>

\*  constraint_no int
clConstraintNo ==
    <<" ","c","o","n","s","t","r","a","i","n","t","_","n","o"," ","i","n","t">>

\*  int_col int
clIntCol ==
    <<" ","i","n","t","_","c","o","l"," ","i","n","t">>

\*  "bigint_id" bigint
clBigintId ==
    <<" ","\"","b","i","g","i","n","t","_","i","d","\""," ","b","i","g","i","n","t">>

\* (an empty clause)
clEmpty ==
    << >>

ClausePool ==
    { clId, clName, clPrice, clRate, clPrimaryKey, clConstraint, clConstraintNo, clIntCol, clBigintId,
      clEmpty }

\* CREATE TABLE u (<the clauses, separated by commas>);
CreateTableOf(clauseSeq) ==
    <<"C","R","E","A","T","E"," ","T","A","B","L","E"," ","u"," ","(">> \o Join(clauseSeq, << "," >>) \o <<")",";">>


(***************************************************************************)
(* Bounds of the model.                                                    *)
(***************************************************************************)
\* the most lines of an SQL file
MaxLines == 2

\* the most declaration groups of a source file
MaxDecls == 2

\* the most calls of ToMarkdown after a scan
MaxRenders == 2

\* the most scans of the tree by one parser
MaxScans == 2

\* the most clauses of a generated CREATE TABLE statement
MaxClauses == 2

\* the most calls made on a RAG service
MaxCalls == 4

SeqsUpTo(S, n) == UNION { [ 1..k -> S ] : k \in 0..n }

GoFile(path, decls) ==
    [ path |-> path, ext |-> "go", parses |-> TRUE, decls |-> decls, lines |-> << >> ]

\* a .go file that parser.ParseFile rejects
BadGoFile(path) ==
    [ path |-> path, ext |-> "go", parses |-> FALSE, decls |-> << >>, lines |-> << >> ]

SQLFile(path, lines) ==
    [ path |-> path, ext |-> "sql", parses |-> TRUE, decls |-> << >>, lines |-> lines ]

\* parseFile without the check of the error: the file counts as parsed
ParseFileNeverFails(file) == FALSE

\* parseFile returns the error of parser.ParseFile (a .go file only)
ParseFileFails(file) == file.ext = "go" /\ ~file.parses

\* the trees with a source file that does not parse, first or last in walk
\* order (a.go, b.sql, c.go)
BrokenTrees ==
    { << BadGoFile("a.go") >> }
        \cup { << BadGoFile("a.go"), GoFile("c.go", << d >>) >> : d \in DeclPool }
        \cup { << BadGoFile("a.go"), SQLFile("b.sql", << l >>) >> : l \in LinePool }
        \cup { << GoFile("a.go", << d >>), SQLFile("b.sql", << l >>), BadGoFile("c.go") >> :
                    d \in DeclPool, l \in LinePool }

\* the trees whose source file holds the declaration group with a
\* description of several words, alone, twice, or next to another group
WordyTrees ==
    { << GoFile("a.go", << declWords >>) >>, << GoFile("a.go", << declWords, declWords >>) >> }
        \cup { << GoFile("a.go", << declWords, d >>) >> : d \in DeclPool }
        \cup { << GoFile("a.go", << d, declWords >>) >> : d \in DeclPool }

\* the trees scanned: one source file, one SQL file, or one of each with one
\* declaration group and one line, the trees with a broken source file and
\* the trees with a description of several words
Trees ==
    { << GoFile("a.go", d) >> : d \in SeqsUpTo(DeclPool, MaxDecls) }
        \cup { << SQLFile("b.sql", l) >> : l \in SeqsUpTo(LinePool, MaxLines) }
        \cup { << GoFile("a.go", << d >>), SQLFile("b.sql", << l >>) >> : d \in DeclPool, l \in LinePool }
        \cup BrokenTrees
        \cup WordyTrees

(***************************************************************************)
(* The state: the tree of files, the parser's two registries, and where    *)
(* the caller (cmd run: ParseEnums, ParseDBComments, ToMarkdown) stands.   *)
(***************************************************************************)
VARIABLES
    tree,        \* the files under the root path, in walk order
    pc,          \* "ParseEnums", "ParseDBComments", "ToMarkdown", or "ReturnErr"
                 \* when run has returned the error of ParseEnums
    idx,         \* the file the walk visits next
    decls,       \* the declaration groups of the current source file still to visit
    stmts,       \* the statements of the current SQL file still to interpret
    enums,       \* Parser.enums
    dbComments,  \* Parser.dbComments
    warnings,    \* the warnings printed
    docs,        \* the documents ToMarkdown returned since the last scan
    scans,       \* the scans started
    firstScan,   \* the registries as the previous scan left them
    clauses,     \* the clauses the tree's CREATE TABLE statement was written
                 \* with, when the tree was generated from clauses
    docsProcessed, \* RAGService.docsProcessed
    searches,    \* the calls of vectorStore.SimilaritySearch made
    llmCalls,    \* the calls of the question-answering chain made
    stored,      \* the calls of vectorStore.AddDocuments that succeeded
    calls,       \* the calls made on the service
    lastCall     \* the last call made on the service and the error it returned

\* the state of the RAG service and of what it called
service == << docsProcessed, searches, llmCalls, stored, calls, lastCall >>

vars == << tree, pc, idx, decls, stmts, enums, dbComments, warnings, docs, scans, firstScan, clauses,
           service >>

\* a call on the service: op is "Load", "Query" or "Set" ("none" before the
\* first call), arg the argument of SetDocsProcessed, err the stage whose
\* error was returned ("nil" for none)
Call(op, arg, err) == [ op |-> op, arg |-> arg, err |-> err ]

\* NewRAGService: the service as constructed, docsProcessed at its zero value
NewRAGService ==
    /\ docsProcessed = FALSE
    /\ searches = 0
    /\ llmCalls = 0
    /\ stored = 0
    /\ calls = 0
    /\ lastCall = Call("none", FALSE, "nil")

Init ==
    /\ tree \in Trees
    /\ pc = "ParseEnums"
    /\ idx = 1
    /\ decls = << >>
    /\ stmts = << >>
    /\ enums = << >>
    /\ dbComments = << >>
    /\ warnings = 0
    /\ docs = << >>
    /\ scans = 1
    /\ firstScan = [ enums |-> << >>, dbComments |-> << >> ]
    /\ NewRAGService
    /\ clauses = << >>

\* ParseEnums: the walk calls parseFile on the next file, which returns at
\* once for a file that is no .go file and otherwise visits its declarations;
\* when the file does not parse, the walk stops, ParseEnums returns the
\* error and run returns it
EnumsVisitFile ==
    /\ pc = "ParseEnums" /\ idx <= Len(tree) /\ decls = << >>
    /\ IF ParseFileFails(tree[idx])
       THEN pc' = "ReturnErr" /\ decls' = << >> /\ idx' = idx
       ELSE IF tree[idx].ext = "go" /\ tree[idx].decls # << >>
       THEN pc' = pc /\ decls' = tree[idx].decls /\ idx' = idx
       ELSE pc' = pc /\ decls' = << >> /\ idx' = idx + 1
    /\ UNCHANGED << service, tree, stmts, enums, dbComments, warnings, docs, scans, firstScan, clauses >>

\* parseFile: one turn of the loop over node.Decls
EnumsParseDecl ==
    /\ pc = "ParseEnums" /\ decls # << >>
    /\ enums' = ParseDecl(enums, Head(decls), tree[idx].path)
    /\ decls' = Tail(decls)
    /\ idx' = IF Tail(decls) = << >> THEN idx + 1 ELSE idx
    /\ UNCHANGED << service, tree, pc, stmts, dbComments, warnings, docs, scans, firstScan, clauses >>

\* ParseEnums returns and the caller goes on to ParseDBComments
EnumsReturn ==
    /\ pc = "ParseEnums" /\ idx > Len(tree)
    /\ pc' = "ParseDBComments" /\ idx' = 1
    /\ UNCHANGED << service, tree, decls, stmts, enums, dbComments, warnings, docs, scans, firstScan, clauses >>

\* ParseDBComments: the walk calls parseSQLFile on the next .sql file, which
\* splits the file into statements
DBVisitFile ==
    /\ pc = "ParseDBComments" /\ idx <= Len(tree) /\ stmts = << >>
    /\ LET found == IF tree[idx].ext = "sql" THEN splitSQLStatements(tree[idx].lines) ELSE << >>
       IN  /\ stmts' = found
           /\ idx' = IF found = << >> THEN idx + 1 ELSE idx
    /\ UNCHANGED << service, tree, pc, decls, enums, dbComments, warnings, docs, scans, firstScan, clauses >>

\* parseSQLFile: one turn of the loop over the statements
DBParseStatement ==
    /\ pc = "ParseDBComments" /\ stmts # << >>
    /\ LET r == ParseStatement(dbComments, Head(stmts))
       IN  /\ dbComments' = r.db
           /\ warnings' = IF r.warned THEN warnings + 1 ELSE warnings
    /\ stmts' = Tail(stmts)
    /\ idx' = IF Tail(stmts) = << >> THEN idx + 1 ELSE idx
    /\ UNCHANGED << service, tree, pc, decls, enums, docs, scans, firstScan, clauses >>

\* ParseDBComments returns and the caller goes on to ToMarkdown
DBReturn ==
    /\ pc = "ParseDBComments" /\ idx > Len(tree)
    /\ pc' = "ToMarkdown"
    /\ UNCHANGED << service, tree, idx, decls, stmts, enums, dbComments, warnings, docs, scans, firstScan, clauses >>

\* ToMarkdown: the range over p.enums yields the groups in an order of the
\* runtime's choosing
ToMarkdown ==
    /\ pc = "ToMarkdown" /\ Len(docs) < MaxRenders
    /\ \E order \in IterationOrders(DOMAIN enums) :
           docs' = Append(docs, RenderMarkdown(enums, dbComments, order))
    /\ UNCHANGED << service, tree, pc, idx, decls, stmts, enums, dbComments, warnings, scans, firstScan, clauses >>

\* the caller scans the unchanged tree again with the same parser
Rescan ==
    /\ pc = "ToMarkdown" /\ scans < MaxScans
    /\ firstScan' = [ enums |-> enums, dbComments |-> dbComments ]
    /\ scans' = scans + 1
    /\ pc' = "ParseEnums" /\ idx' = 1 /\ docs' = << >>
    /\ UNCHANGED << service, tree, decls, stmts, enums, dbComments, warnings, clauses >>

Next ==
    \/ EnumsVisitFile
    \/ EnumsParseDecl
    \/ EnumsReturn
    \/ DBVisitFile
    \/ DBParseStatement
    \/ DBReturn
    \/ ToMarkdown
    \/ Rescan

Spec == Init /\ [][Next]_vars

(***************************************************************************)
(* The same parser on one SQL file holding one CREATE TABLE statement      *)
(* written with every sequence of clauses of the pool.                     *)
(***************************************************************************)
InitFields ==
    /\ clauses \in SeqsUpTo(ClausePool, MaxClauses) \ { << >> }
    /\ tree = << SQLFile("c.sql", << CreateTableOf(clauses) >>) >>
    /\ pc = "ParseEnums"
    /\ idx = 1
    /\ decls = << >>
    /\ stmts = << >>
    /\ enums = << >>
    /\ dbComments = << >>
    /\ warnings = 0
    /\ docs = << >>
    /\ scans = 1
    /\ firstScan = [ enums |-> << >>, dbComments |-> << >> ]
    /\ NewRAGService

NextFields ==
    \/ EnumsVisitFile
    \/ EnumsReturn
    \/ DBVisitFile
    \/ DBParseStatement
    \/ DBReturn
    \/ ToMarkdown

SpecFields == InitFields /\ [][NextFields]_vars

(***************************************************************************)
(* The same parser on one SQL file whose lines the splitter has to cut,    *)
(* join and strip of comments.                                             *)
(***************************************************************************)
InitSplit ==
    /\ tree \in { << SQLFile("s.sql", l) >> : l \in SeqsUpTo(SplitPool, MaxLines) }
    /\ pc = "ParseEnums"
    /\ idx = 1
    /\ decls = << >>
    /\ stmts = << >>
    /\ enums = << >>
    /\ dbComments = << >>
    /\ warnings = 0
    /\ docs = << >>
    /\ scans = 1
    /\ firstScan = [ enums |-> << >>, dbComments |-> << >> ]
    /\ NewRAGService
    /\ clauses = << >>

SpecSplit == InitSplit /\ [][NextFields]_vars

(***************************************************************************)
(* The RAG service: the calls a caller makes on a constructed service.     *)
(* The document loader, the vector store and the language model succeed or *)
(* fail as they choose.                                                    *)
(***************************************************************************)
\* the state of the documentation parser, which the service does not touch
docgen == << tree, pc, idx, decls, stmts, enums, dbComments, warnings, docs, scans, firstScan, clauses >>

InitRAG ==
    /\ NewRAGService
    /\ tree = << >>
    /\ pc = "ParseEnums"
    /\ idx = 1
    /\ decls = << >>
    /\ stmts = << >>
    /\ enums = << >>
    /\ dbComments = << >>
    /\ warnings = 0
    /\ docs = << >>
    /\ scans = 1
    /\ firstScan = [ enums |-> << >>, dbComments |-> << >> ]
    /\ clauses = << >>

\* the error LoadAndProcessDocuments returns: that of the first stage that fails
LoadError(loadOk, splitOk, addOk) ==
    IF ~loadOk THEN "load" ELSE IF ~splitOk THEN "split" ELSE IF ~addOk THEN "add" ELSE "nil"

\* Query without the test of the flag
QueryNeverRefused(processed) == FALSE

\* Query, line 104: the call is refused when the documents are not processed
QueryRefused(processed) == ~processed

\* the error Query returns
QueryError(processed, searchOk, chainOk) ==
    IF QueryRefused(processed) THEN "unprocessed"
    ELSE IF ~searchOk THEN "search" ELSE IF ~chainOk THEN "chain" ELSE "nil"

LoadAndProcessDocuments ==
    /\ calls < MaxCalls
    /\ \E loadOk, splitOk, addOk \in BOOLEAN :
           /\ stored' = IF LoadError(loadOk, splitOk, addOk) = "nil" THEN stored + 1 ELSE stored
           /\ docsProcessed' = IF LoadError(loadOk, splitOk, addOk) = "nil" THEN TRUE ELSE docsProcessed
           /\ lastCall' = Call("Load", FALSE, LoadError(loadOk, splitOk, addOk))
    /\ calls' = calls + 1
    /\ UNCHANGED << docgen, searches, llmCalls >>

Query ==
    /\ calls < MaxCalls
    /\ \E searchOk, chainOk \in BOOLEAN :
           /\ searches' = IF QueryRefused(docsProcessed) THEN searches ELSE searches + 1
           /\ llmCalls' = IF QueryRefused(docsProcessed) \/ ~searchOk THEN llmCalls ELSE llmCalls + 1
           /\ lastCall' = Call("Query", FALSE, QueryError(docsProcessed, searchOk, chainOk))
    /\ calls' = calls + 1
    /\ UNCHANGED << docgen, docsProcessed, stored >>

SetDocsProcessed ==
    /\ calls < MaxCalls
    /\ \E processed \in BOOLEAN :
           /\ docsProcessed' = processed
           /\ lastCall' = Call("Set", processed, "nil")
    /\ calls' = calls + 1
    /\ UNCHANGED << docgen, searches, llmCalls, stored >>

NextRAG ==
    \/ LoadAndProcessDocuments
    \/ Query
    \/ SetDocsProcessed

SpecRAG == InitRAG /\ [][NextRAG]_vars

(***************************************************************************)
(* The properties checked.  The texts the inputs above are expected to     *)
(* leave in the registries are written out as literals.                    *)
(***************************************************************************)
tblT == <<"t">>
tblU == <<"u">>
colId == <<"i","d">>
colName == <<"n","a","m","e">>
colPrice == <<"p","r","i","c","e">>
colRate == <<"r","a","t","e">>
colConstraintNo == <<"c","o","n","s","t","r","a","i","n","t","_","n","o">>
colIntCol == <<"i","n","t","_","c","o","l">>
colBigintId == <<"b","i","g","i","n","t","_","i","d">>
tyBigint == <<"b","i","g","i","n","t">>
tyCharacterVarying == <<"c","h","a","r","a","c","t","e","r"," ","v","a","r","y","i","n","g","(","5","0",")">>
tyCharacter == <<"c","h","a","r","a","c","t","e","r">>
tyNumeric == <<"n","u","m","e","r","i","c","(","1","0",",","2",")">>
tyDecimal == <<"d","e","c","i","m","a","l","(","8",","," ","2",")">>
txtXm == <<"x","m">>
txtPk == <<"p","k">>
txtTt == <<"t","t">>
txtTp == <<"t","p">>
txtTq == <<"t","q">>
txtTa == <<"t","a">>
grpSt == <<"S","t"," ","s","t">>
grpLv == <<"L","v"," ","l","v">>
blank == <<"_">>

\* the scan (ParseEnums, then ParseDBComments) has returned
ScanEnded == pc = "ToMarkdown"

\* the lines of the tree's SQL file (<< >> when it has none)
SQLLines == IF tree[Len(tree)].ext = "sql" THEN tree[Len(tree)].lines ELSE << >>

\* the declaration groups of the tree's source file (<< >> when it has none)
GoDecls == IF tree[1].ext = "go" THEN tree[1].decls ELSE << >>

FieldNames(table) == [ i \in 1..Len(table.Fields) |-> table.Fields[i].FieldName ]

FieldNamesAndComments(table) ==
    [ i \in 1..Len(table.Fields) |-> << table.Fields[i].FieldName, table.Fields[i].Comment >> ]

MaxOf(S) == CHOOSE x \in S : \A y \in S : y <= x

\* C1: after CREATE TABLE "public"."t"("id" bigint NOT NULL, "name" character
\* varying(50)); followed by COMMENT ON COLUMN "public"."t"."name" IS 'xm'; the
\* registry holds exactly table t, with the columns id of type bigint and name
\* of type character varying(50), the full type text, and comment xm.
C1_FullTypeTextRecorded ==
    (ScanEnded /\ SQLLines = << sqlCreateT, sqlColName >>) =>
        /\ DOMAIN dbComments = { tblT }
        /\ dbComments[tblT].Fields =
               << [ FieldName |-> colId, FieldType |-> tyBigint, Comment |-> << >> ],
                  [ FieldName |-> colName, FieldType |-> tyCharacterVarying, Comment |-> txtXm ] >>

\* the scenario of C1 has been scanned and the type of column name was
\* recorded as the first word of its type text
C1_TypeCutAtFirstSpace ==
    /\ ScanEnded /\ SQLLines = << sqlCreateT, sqlColName >>
    /\ DOMAIN dbComments = { tblT }
    /\ dbComments[tblT].Fields =
           << [ FieldName |-> colId, FieldType |-> tyBigint, Comment |-> << >> ],
              [ FieldName |-> colName, FieldType |-> tyCharacter, Comment |-> txtXm ] >>

\* C2 as stated: whether COMMENT ON COLUMN "public"."t"."name" is processed
\* before or after the CREATE TABLE of t, the final entry of t carries the
\* comment on column name and on no other column.
C2_CommentInEitherOrder ==
    (ScanEnded /\ SQLLines \in { << sqlCreateT, sqlColName >>, << sqlColName, sqlCreateT >> }) =>
        /\ tblT \in DOMAIN dbComments
        /\ FieldNamesAndComments(dbComments[tblT]) = << << colId, << >> >>, << colName, txtXm >> >>

\* the column of t and the text a line sets as its comment: << column, text >>,
\* or << >> for a line that is no column comment of t
ColumnCommentOf(line) ==
    IF line = sqlColName THEN << colName, txtXm >>
    ELSE IF line = sqlColId THEN << colId, txtPk >>
    ELSE << >>

\* the comment expected on column col of t after the lines: the text of the
\* last column comment for col that follows the last CREATE TABLE of t
CommentAfterCreate(lines, col) ==
    LET lastCreate == MaxOf({ i \in 1..Len(lines) : lines[i] = sqlCreateT })
        hits == { i \in (lastCreate + 1)..Len(lines) :
                    ColumnCommentOf(lines[i]) # << >> /\ ColumnCommentOf(lines[i])[1] = col }
    IN  IF hits = {} THEN << >> ELSE ColumnCommentOf(lines[MaxOf(hits)])[2]

\* C2 (amended): when the CREATE TABLE of t is among the statements, the final
\* entry of t has the declared columns, and each column carries the text of
\* the last COMMENT ON COLUMN statement for it that was processed after the
\* last CREATE TABLE of t, or no comment when there is none: a column comment
\* processed before the CREATE TABLE is dropped, and a column comment changes
\* no other column.
C2_CommentAfterCreateOnly ==
    (ScanEnded /\ \E i \in 1..Len(SQLLines) : SQLLines[i] = sqlCreateT) =>
        /\ tblT \in DOMAIN dbComments
        /\ FieldNamesAndComments(dbComments[tblT]) =
               << << colId, CommentAfterCreate(SQLLines, colId) >>,
                  << colName, CommentAfterCreate(SQLLines, colName) >> >>

\* the comment on column name was processed after the CREATE TABLE of t and
\* is on column name alone
C2_CommentedAfterCreate ==
    /\ ScanEnded /\ SQLLines = << sqlCreateT, sqlColName >>
    /\ tblT \in DOMAIN dbComments
    /\ FieldNamesAndComments(dbComments[tblT]) = << << colId, << >> >>, << colName, txtXm >> >>

\* C3: when t receives both CREATE TABLE and COMMENT ON TABLE t IS 'tt', the
\* final entry of t holds the columns of the CREATE TABLE and the comment tt,
\* whichever statement is processed first.
C3_CommentSurvivesCreate ==
    (ScanEnded /\ SQLLines \in { << sqlCreateT, sqlTabBare >>, << sqlTabBare, sqlCreateT >> }) =>
        /\ tblT \in DOMAIN dbComments
        /\ dbComments[tblT].Comment = txtTt
        /\ FieldNames(dbComments[tblT]) = << colId, colName >>

\* the table comment was processed first and the entry the CREATE TABLE left
\* has the columns and no comment
C3_CommentErasedByCreate ==
    /\ ScanEnded /\ SQLLines = << sqlTabBare, sqlCreateT >>
    /\ tblT \in DOMAIN dbComments
    /\ dbComments[tblT].Comment = << >>
    /\ FieldNames(dbComments[tblT]) = << colId, colName >>

\* the text a schema-qualified COMMENT ON TABLE line gives table t: << text >>
SchemaQualifiedComment(line) ==
    IF line = sqlTabPublic THEN << txtTp >>
    ELSE IF line = sqlTabQuoted THEN << txtTq >>
    ELSE IF line = sqlTabSchema THEN << txtTa >>
    ELSE << >>

\* C4: a COMMENT ON TABLE statement with a schema-qualified target (public.t,
\* "public"."t" or app.t) sets the comment of the entry keyed t, creating the
\* entry when it is absent.
C4_SchemaQualifiedTableComment ==
    (ScanEnded /\ Len(SQLLines) = 1 /\ SchemaQualifiedComment(SQLLines[1]) # << >>) =>
        /\ DOMAIN dbComments = { tblT }
        /\ dbComments[tblT].Comment = SchemaQualifiedComment(SQLLines[1])[1]

\* COMMENT ON TABLE "public"."t" IS 'tq'; was processed and the registry has
\* no entry
C4_QuotedTargetDropped ==
    /\ ScanEnded /\ SQLLines = << sqlTabQuoted >>
    /\ DOMAIN dbComments = {}

ItemNames(group) == { group.Items[i].Name : i \in 1..Len(group.Items) }

\* parseFile is about to merge the next declaration group into the existing
\* group of its name
MergeStep ==
    /\ pc = "ParseEnums" /\ decls # << >>
    /\ ScannedGroup(Head(decls), tree[idx].path) # << >>
    /\ ScannedGroup(Head(decls), tree[idx].path)[1].Name \in DOMAIN enums

\* the group left by merging group new into group old is the union by name
\* without duplicates, the old members first and unchanged, with the sorted
\* union of the tags
MergedAsUnion(old, new, merged) ==
    /\ ItemNames(merged) = ItemNames(old) \cup ItemNames(new)
    /\ Cardinality(ItemNames(merged)) = Len(merged.Items)
    /\ Len(merged.Items) >= Len(old.Items)
    /\ SubSeq(merged.Items, 1, Len(old.Items)) = old.Items
    /\ merged.Tags = SortedStrings(SeqToSet(old.Tags) \cup SeqToSet(new.Tags))

\* C5: every merge of a newly scanned group into the existing group of the
\* same name leaves a member list whose names are the set union of both
\* groups' member names, none twice, the existing members in place, and the
\* sorted union of both tag lists.
C5_MergeIsUnionByName ==
    [][ MergeStep =>
          LET new == ScannedGroup(Head(decls), tree[idx].path)[1]
          IN  MergedAsUnion(enums[new.Name], new, enums'[new.Name]) ]_vars

\* the group St st holds the blank identifier twice after a merge
C5_DuplicateAfterMerge ==
    /\ GoDecls = << declSt, declStBlank >>
    /\ ScanEnded
    /\ grpSt \in DOMAIN enums
    /\ Cardinality({ i \in 1..Len(enums[grpSt].Items) : enums[grpSt].Items[i].Name = blank }) = 2

\* C6: a scan of the unchanged tree that starts from the registries the scan
\* before it left ends with the same enumeration groups and the same tables.
C6_RescanIdempotent ==
    (ScanEnded /\ scans >= 2) =>
        /\ enums = firstScan.enums
        /\ dbComments = firstScan.dbComments

\* a second scan has ended on a tree that fills both registries
C6_SecondScanEnded ==
    /\ ScanEnded /\ scans = 2
    /\ DOMAIN enums # {}
    /\ DOMAIN dbComments # {}
    /\ enums = firstScan.enums
    /\ dbComments = firstScan.dbComments

\* C7: two calls of ToMarkdown on the same registry of two or more groups
\* return the same document.
C7_RenderStable ==
    (Len(docs) >= 2 /\ Cardinality(DOMAIN enums) >= 2) => docs[1] = docs[2]

\* two calls of ToMarkdown on the same registry returned different documents
C7_TwoOrders ==
    /\ Len(docs) >= 2
    /\ Cardinality(DOMAIN enums) >= 2
    /\ docs[1] # docs[2]

\* the column a clause of the pool declares: << name >>, or << >> for a
\* clause that declares none
DeclaredColumn(clause) ==
    IF clause = clId THEN << colId >>
    ELSE IF clause = clName THEN << colName >>
    ELSE IF clause = clPrice THEN << colPrice >>
    ELSE IF clause = clRate THEN << colRate >>
    ELSE IF clause = clConstraintNo THEN << colConstraintNo >>
    ELSE IF clause = clIntCol THEN << colIntCol >>
    ELSE IF clause = clBigintId THEN << colBigintId >>
    ELSE << >>

DeclaredColumns(clauseSeq) == Concat([ i \in 1..Len(clauseSeq) |-> DeclaredColumn(clauseSeq[i]) ])

\* the first cell of every row of a rendered document
RenderedColumns(doc) ==
    LET IsRow(line) == line.kind = "row"
        rows == SelectSeq(doc, IsRow)
    IN  [ i \in 1..Len(rows) |-> rows[i].cells[1] ]

\* C8: the recorded and the rendered columns of a table whose CREATE TABLE
\* statement parsed are its declared columns in declaration order, without
\* the PRIMARY KEY and CONSTRAINT clauses and without omission.
C8_ColumnsAsDeclared ==
    (ScanEnded /\ tblU \in DOMAIN dbComments) =>
        /\ FieldNames(dbComments[tblU]) = DeclaredColumns(clauses)
        /\ \A d \in 1..Len(docs) : RenderedColumns(docs[d]) = DeclaredColumns(clauses)

\* CREATE TABLE u ( constraint_no int); was processed and table u has no column
C8_ColumnOmitted ==
    /\ ScanEnded /\ clauses = << clConstraintNo >>
    /\ tblU \in DOMAIN dbComments
    /\ dbComments[tblU].Fields = << >>

\* the column recorded for a clause whose type has a parenthesized modifier
ModifierColumn(clause) ==
    IF clause = clPrice
    THEN << [ FieldName |-> colPrice, FieldType |-> tyNumeric, Comment |-> << >> ] >>
    ELSE IF clause = clRate
    THEN << [ FieldName |-> colRate, FieldType |-> tyDecimal, Comment |-> << >> ] >>
    ELSE << >>

IsModifierColumn(field) == field.FieldName \in { colPrice, colRate }

\* the clauses expected of the column list: one for each part between the
\* commas outside parentheses, the part after the last comma only when it is
\* not empty
ClausesAtDepthZero(clauseSeq) ==
    IF clauseSeq[Len(clauseSeq)] = << >> THEN SubSeq(clauseSeq, 1, Len(clauseSeq) - 1) ELSE clauseSeq

\* C9: the column list written from clauses that hold commas only inside
\* parentheses is split back into those clauses (as many as commas outside
\* parentheses, plus one for a non-empty tail), and every clause with the type
\* numeric(10,2) or decimal(8, 2) is recorded as one column with that type.
C9_SplitAtDepthZero ==
    /\ splitFields(Join(clauses, << "," >>)) = ClausesAtDepthZero(clauses)
    /\ Len(splitFields(Join(clauses, << "," >>)))
           = (Len(clauses) - 1) + (IF clauses[Len(clauses)] = << >> THEN 0 ELSE 1)
    /\ ScanEnded =>
           /\ tblU \in DOMAIN dbComments
           /\ SelectSeq(dbComments[tblU].Fields, IsModifierColumn)
                  = Concat([ i \in 1..Len(clauses) |-> ModifierColumn(clauses[i]) ])

\* CREATE TABLE u ( price numeric(10,2), rate decimal(8, 2) DEFAULT 0); was
\* processed and table u has the two columns
C9_ModifierKeptWhole ==
    /\ ScanEnded /\ clauses = << clPrice, clRate >>
    /\ tblU \in DOMAIN dbComments
    /\ dbComments[tblU].Fields = ModifierColumn(clPrice) \o ModifierColumn(clRate)

\* the members expected of each annotated declaration group of the pool
ExpectedMembers(gen) ==
    IF gen = declSt THEN
        << [ Name |-> <<"S","t","A">>, Value |-> << <<"1">> >>, Comment |-> <<"o","n","e">> ],
           [ Name |-> <<"S","t","B">>, Value |-> << <<"2">> >>, Comment |-> <<"s","t">> ] >>
    ELSE IF gen = declStMore THEN
        << [ Name |-> <<"S","t","B">>, Value |-> << <<"5">> >>, Comment |-> <<"f","i","v","e">> ],
           [ Name |-> <<"S","t","C">>, Value |-> << <<"3">> >>, Comment |-> <<"s","t">> ] >>
    ELSE IF gen = declStBlank THEN
        << [ Name |-> <<"S","t","X">>, Value |-> << <<"i","o","t","a">> >>, Comment |-> <<"s","t">> ],
           [ Name |-> <<"_">>, Value |-> << >>, Comment |-> <<"s","t">> ],
           [ Name |-> <<"_">>, Value |-> << >>, Comment |-> <<"s","t">> ] >>
    ELSE IF gen = declMode THEN
        << [ Name |-> <<"C","u","r">>, Value |-> << <<"x",".","Y">> >>, Comment |-> <<"c","m">> ] >>
    ELSE IF gen = declLv THEN
        << [ Name |-> <<"L","v","A">>, Value |-> << <<"1">> >>, Comment |-> <<"l","e","a","d">> ],
           [ Name |-> <<"L","v","B">>, Value |-> << <<"2">> >>, Comment |-> <<"t","b">> ] >>
    ELSE IF gen = declBare THEN
        << [ Name |-> <<"B","a","X">>, Value |-> << <<"1">> >>, Comment |-> << >> ],
           [ Name |-> <<"B","a","Y">>, Value |-> << <<"2">> >>, Comment |-> <<"y">> ] >>
    ELSE IF gen = declCap THEN
        << [ Name |-> <<"M","a","x">>, Value |-> << <<"9">> >>, Comment |-> <<"c","a","p">> ] >>
    ELSE IF gen = declLow THEN
        << [ Name |-> <<"c","u","r">>, Value |-> << <<"1">> >>, Comment |-> <<"l","o","w">> ] >>
    ELSE IF gen = declWords THEN
        << [ Name |-> <<"S","t","P">>, Value |-> << <<"1">> >>, Comment |-> <<"s","t"," ","o","n"," ","o","f","f">> ],
           [ Name |-> <<"S","t","Q">>, Value |-> << <<"2">> >>, Comment |-> <<"q">> ] >>
    ELSE << >>

ExpectedOfTree == UNION { SeqToSet(ExpectedMembers(GoDecls[i])) : i \in 1..Len(GoDecls) }

RecordedItems == UNION { SeqToSet(enums[g].Items) : g \in DOMAIN enums }

\* C10: every recorded member carries its trailing same-line comment when it
\* has one, otherwise its own leading documentation comment when it has one,
\* otherwise the group's description; and every member of an annotated
\* declaration group is recorded.
C10_CommentPrecedence ==
    ScanEnded =>
        /\ RecordedItems \subseteq ExpectedOfTree
        /\ \A x \in ExpectedOfTree : \E y \in RecordedItems : y.Name = x.Name

\* the group Lv lv was scanned: LvA has its leading comment and LvB, which has
\* both, its trailing comment
C10_TrailingCommentKept ==
    /\ ScanEnded /\ GoDecls = << declLv >>
    /\ grpLv \in DOMAIN enums
    /\ enums[grpLv].Items = ExpectedMembers(declLv)

StrictlyAscending(seq) == \A i \in 1..(Len(seq) - 1) : StrLess(seq[i], seq[i + 1])

tagA == <<"a">>
tagC == <<"c">>

\* C11: in every state of the registry, after every first sighting and every
\* merge, the tag list of every enumeration group is sorted ascending and
\* holds no tag twice.
C11_TagsSortedUnique ==
    \A g \in DOMAIN enums : StrictlyAscending(enums[g].Tags)

\* two groups of the name St st were scanned and the tags of the second (c,
\* from StC) were merged into those of the first (a, from StA)
C11_TagsMerged ==
    /\ ScanEnded /\ GoDecls = << declSt, declStMore >>
    /\ grpSt \in DOMAIN enums
    /\ { tagA, tagC } \subseteq SeqToSet(enums[grpSt].Tags)

\* the line that opens the table section of a document
IsTablesTitle(line) == line.kind = "h1" /\ line.cells = << <<"t","a","b","l","e","s">> >>

\* the table names of the headings of the table section of a document, in
\* the order of the document
TableHeadings(doc) ==
    LET titles == { i \in 1..Len(doc) : IsTablesTitle(doc[i]) }
        IsHeading(line) == line.kind = "h2"
        section == IF titles = {} THEN << >> ELSE SubSeq(doc, MaxOf(titles) + 1, Len(doc))
        headings == SelectSeq(section, IsHeading)
    IN  [ i \in 1..Len(headings) |-> headings[i].cells[1] ]

\* C12: every document ToMarkdown returns lists the tables of the registry
\* in strictly ascending order of table name, whatever the order in which the
\* statements put them into the registry.
C12_TablesAscending ==
    \A d \in 1..Len(docs) :
        /\ StrictlyAscending(TableHeadings(docs[d]))
        /\ SeqToSet(TableHeadings(docs[d])) = DOMAIN dbComments

\* table u was put into the registry before table t and the document lists
\* t before u
C12_LaterTableFirst ==
    /\ SQLLines = << sqlCreateU, sqlCreateT >>
    /\ Len(docs) >= 1
    /\ TableHeadings(docs[1]) = << tblT, tblU >>

colZz == <<"z","z">>

\* parseSQLFile is about to interpret a COMMENT ON statement
CommentStep ==
    /\ pc = "ParseDBComments" /\ stmts # << >>
    /\ HasPrefix(ToUpper(TrimSpace(Head(stmts))), kwCommentOn)

NamesAndTypes(table) ==
    [ i \in 1..Len(table.Fields) |-> << table.Fields[i].FieldName, table.Fields[i].FieldType >> ]

\* the step keeps every table and its sequence of column names and types
ColumnsKept ==
    \A t \in DOMAIN dbComments :
        /\ t \in DOMAIN dbComments'
        /\ NamesAndTypes(dbComments'[t]) = NamesAndTypes(dbComments[t])

\* the column of t a COMMENT ON COLUMN statement of the pool names: << column >>
ColumnTarget(stmt) ==
    IF stmt = sqlColName THEN << colName >>
    ELSE IF stmt = sqlColId THEN << colId >>
    ELSE IF stmt = sqlColMissing THEN << colZz >>
    ELSE << >>

\* the columns of t the step changes
ChangedColumns ==
    { i \in 1..Len(dbComments[tblT].Fields) : dbComments'[tblT].Fields[i] # dbComments[tblT].Fields[i] }

\* the step changes at most one column of t, which is named col, and nothing else
OnlyColumnChanged(col) ==
    /\ DOMAIN dbComments' = DOMAIN dbComments
    /\ \A t \in DOMAIN dbComments \ { tblT } : dbComments'[t] = dbComments[t]
    /\ tblT \in DOMAIN dbComments =>
           /\ dbComments'[tblT].Comment = dbComments[tblT].Comment
           /\ Len(dbComments'[tblT].Fields) = Len(dbComments[tblT].Fields)
           /\ Cardinality(ChangedColumns) <= 1
           /\ \A i \in ChangedColumns : dbComments[tblT].Fields[i].FieldName = col

\* C13: the interpretation of a COMMENT ON statement leaves every table's
\* sequence of column names and types as it was; a COMMENT ON COLUMN for
\* column c of t changes at most one column of t, which is named c, and
\* leaves t's comment and every other table as they were.
C13_CommentKeepsColumns ==
    [][ CommentStep =>
          /\ ColumnsKept
          /\ ColumnTarget(Head(stmts)) # << >> => OnlyColumnChanged(ColumnTarget(Head(stmts))[1]) ]_vars

\* COMMENT ON COLUMN t.id was interpreted after the CREATE TABLE of t: id has
\* the comment, and the columns, their order and their types are as declared
C13_CommentedInPlace ==
    /\ ScanEnded /\ SQLLines = << sqlCreateT, sqlColId >>
    /\ DOMAIN dbComments = { tblT }
    /\ dbComments[tblT].Fields =
           << [ FieldName |-> colId, FieldType |-> tyBigint, Comment |-> txtPk ],
              [ FieldName |-> colName, FieldType |-> tyCharacter, Comment |-> << >> ] >>

\* the statements the splitter returns for the tree's SQL file
Statements == splitSQLStatements(SQLLines)

\* the statements of the pool for which an interpreter returns an error
Failing(stmt) == stmt \in { sqlBadComment, sqlBadCreate, sqlNoName }

NotFailing(stmt) == ~Failing(stmt)

\* the registry left by interpreting the statements in their order
RECURSIVE Interpreted(_, _)
Interpreted(db, statements) ==
    IF statements = << >> THEN db
    ELSE Interpreted(ParseStatement(db, statements[1]).db, Tail(statements))

\* C14: a CREATE TABLE statement without a table name or a field list and a
\* COMMENT ON statement of neither quoted form leave the registry as it was
\* and are reported by a warning; the scan goes on, and it ends with the
\* registry the statements without the failing ones give (stated of the
\* state in which the scan returns, before any rendering).
C14_FailingStatementSkipped ==
    (ScanEnded /\ docs = << >>) =>
        /\ dbComments = Interpreted(IF scans = 1 THEN << >> ELSE firstScan.dbComments,
                                    SelectSeq(Statements, NotFailing))
        /\ warnings = scans * Len(SelectSeq(Statements, Failing))

\* CREATE TABLE t; was reported and the CREATE TABLE after it was interpreted
C14_ScanWentOn ==
    /\ ScanEnded /\ scans = 1
    /\ SQLLines = << sqlBadCreate, sqlCreateT >>
    /\ warnings = 1
    /\ DOMAIN dbComments = { tblT }
    /\ FieldNames(dbComments[tblT]) = << colId, colName >>

\* the string is one statement without comment text: it ends with ";", holds
\* no ";" before that, and holds none of "--", "/*" and "*/"
SingleStatement(stmt) ==
    /\ HasSuffix(stmt, semicolon)
    /\ Index(stmt, semicolon) = Len(stmt)
    /\ ~Contains(stmt, dashDash)
    /\ ~Contains(stmt, blockOpen)
    /\ ~Contains(stmt, blockClose)

\* C15: every string the splitter returns is one single statement without
\* comment text: it ends with ";", no statement ends before that, and it
\* holds no "--" and no block comment.
C15_SingleStatements ==
    \A i \in 1..Len(stmts) : SingleStatement(stmts[i])

\* the splitter returned the line with two statements as one string
C15_TwoStatementsInOne ==
    /\ pc = "ParseDBComments"
    /\ SQLLines = << sqlTwoOnLine >>
    /\ stmts = << sqlTwoOnLine >>

grpMaxCap == <<"M","a","x"," ","c","a","p">>
grpCap == <<" ","c","a","p">>

\* the name expected of the group of each annotated declaration group of the
\* pool: the base name, a space and the description
ExpectedGroupName(gen) ==
    IF gen \in { declSt, declStMore, declStBlank } THEN grpSt
    ELSE IF gen = declMode THEN <<"M","o","d","e"," ","m","o","d","e">>
    ELSE IF gen = declLv THEN grpLv
    ELSE IF gen = declBare THEN <<"B","a"," ">>
    ELSE IF gen = declCap THEN grpMaxCap
    ELSE IF gen = declLow THEN <<"c","u","r"," ","l","o","w">>
    ELSE IF gen = declWords THEN <<"S","t"," ","s","t"," ","o","n"," ","o","f","f">>
    ELSE << >>

\* C16: the base name of a group that is no single typed declaration is the
\* first member's name without its trailing capitalized word (St of StA), and
\* the full name when that would leave nothing (Max) or when the name has no
\* upper-case letter (cur): no group name starts with an empty base name.
C16_BaseNameNeverEmpty ==
    ScanEnded =>
        /\ \A i \in 1..Len(GoDecls) :
               ExpectedGroupName(GoDecls[i]) # << >> => ExpectedGroupName(GoDecls[i]) \in DOMAIN enums
        /\ \A g \in DOMAIN enums : g[1] # " "

\* the group of const Max = 9 was stored with an empty base name
C16_EmptyBaseName ==
    /\ ScanEnded /\ GoDecls = << declCap >>
    /\ DOMAIN enums = { grpCap }

\* parseSQLFile is about to interpret a COMMENT ON COLUMN statement for a
\* table the registry does not hold or for a column the table does not have
UnknownColumnStep ==
    /\ pc = "ParseDBComments" /\ stmts # << >>
    /\ ColumnTarget(Head(stmts)) # << >>
    /\ \/ tblT \notin DOMAIN dbComments
       \/ ColumnTarget(Head(stmts))[1] \notin SeqToSet(FieldNames(dbComments[tblT]))

\* C17: a COMMENT ON COLUMN statement for a table the registry does not hold,
\* or for a column the table does not have, leaves the registry as it was
\* (no table and no column is added) and is not reported.
C17_UnknownColumnDropped ==
    [][ UnknownColumnStep => dbComments' = dbComments /\ warnings' = warnings ]_vars

\* a comment for column zz, which t does not have, was processed after the
\* CREATE TABLE of t: no warning, and t has its two columns without comment
C17_MissingColumnIgnored ==
    /\ ScanEnded /\ scans = 1
    /\ SQLLines = << sqlCreateT, sqlColMissing >>
    /\ warnings = 0
    /\ DOMAIN dbComments = { tblT }
    /\ FieldNamesAndComments(dbComments[tblT]) = << << colId, << >> >>, << colName, << >> >> >>

\* the text of each column clause of the pool from its second token on, by
\* the column's name
TextFromSecondToken(fieldName) ==
    IF fieldName = colId THEN <<"b","i","g","i","n","t"," ","N","O","T"," ","N","U","L","L">>
    ELSE IF fieldName = colName THEN tyCharacterVarying
    ELSE IF fieldName = colPrice THEN tyNumeric
    ELSE IF fieldName = colRate THEN <<"d","e","c","i","m","a","l","(","8",","," ","2",")"," ","D","E","F","A","U","L","T"," ","0">>
    ELSE IF fieldName = colConstraintNo THEN <<"i","n","t">>
    ELSE IF fieldName = colIntCol THEN <<"i","n","t">>
    ELSE IF fieldName = colBigintId THEN tyBigint
    ELSE << >>

\* C18: the recorded type of every column is read from the second token of
\* its clause on (it is a non-empty start of the text that follows the
\* name), also when the type's text occurs inside the name, as in
\* int_col int and "bigint_id" bigint.
C18_TypeFromSecondToken ==
    (ScanEnded /\ tblU \in DOMAIN dbComments) =>
        \A i \in 1..Len(dbComments[tblU].Fields) :
            /\ dbComments[tblU].Fields[i].FieldType # << >>
            /\ HasPrefix(TextFromSecondToken(dbComments[tblU].Fields[i].FieldName),
                         dbComments[tblU].Fields[i].FieldType)

\* the column int_col int was recorded with its own name as its type
C18_NameRecordedAsType ==
    /\ ScanEnded /\ clauses = << clIntCol >>
    /\ tblU \in DOMAIN dbComments
    /\ dbComments[tblU].Fields =
           << [ FieldName |-> colIntCol, FieldType |-> colIntCol, Comment |-> << >> ] >>

\* C19: in every state of the registry no two members of a group have the
\* same name, at the first sighting of a group as well as after merges.
C19_MemberNamesUnique ==
    \A g \in DOMAIN enums : Cardinality(ItemNames(enums[g])) = Len(enums[g].Items)

\* a group declared once, with two members named _, holds both of them
C19_DuplicateAtFirstSighting ==
    /\ ScanEnded /\ scans = 1
    /\ GoDecls = << declStBlank >>
    /\ DOMAIN enums = { grpSt }
    /\ Len(enums[grpSt].Items) = 3
    /\ enums[grpSt].Items[2].Name = blank
    /\ enums[grpSt].Items[3].Name = blank

txtADashDashB == <<"a","-","-","b">>

\* C20: a "--" inside the quoted text of a statement is not taken for the
\* start of a comment: COMMENT ON TABLE t IS 'a--b'; is returned whole by the
\* splitter and the comment recorded for t is a--b.
C20_DashesInsideQuotes ==
    (ScanEnded /\ SQLLines = << sqlDashInQuote >>) =>
        /\ Statements = << sqlDashInQuote >>
        /\ warnings = 0
        /\ DOMAIN dbComments = { tblT }
        /\ dbComments[tblT].Comment = txtADashDashB

\* the statement was cut at the "--" inside its quoted text, failed to parse
\* and left the registry empty
C20_CutInsideQuotes ==
    /\ ScanEnded /\ SQLLines = << sqlDashInQuote >>
    /\ Statements = << <<"C","O","M","M","E","N","T"," ","O","N"," ","T","A","B","L","E"," ","t"," ","I","S"," ","'","a",";">> >>
    /\ warnings = 1
    /\ DOMAIN dbComments = { }

\* the first file in walk order that does not parse (0 when every file parses)
FirstBroken ==
    LET broken == { k \in 1..Len(tree) : tree[k].ext = "go" /\ ~tree[k].parses }
    IN  IF broken = {} THEN 0 ELSE CHOOSE k \in broken : \A j \in broken : k <= j

\* C21: when a source file of the walk does not parse, the walk never goes
\* past that file (no group of a later file is stored), run ends by
\* returning the error with the walk at that file, and the SQL scan and the
\* rendering never start: no statement is read, no table is stored, no
\* warning is printed and no document is made.
C21_ParseErrorAborts ==
    FirstBroken # 0 =>
        /\ pc \in { "ParseEnums", "ReturnErr" }
        /\ idx <= FirstBroken
        /\ (pc = "ReturnErr" => idx = FirstBroken)
        /\ (FirstBroken = 1 => enums = << >>)
        /\ stmts = << >> /\ dbComments = << >> /\ warnings = 0
        /\ docs = << >> /\ scans = 1

\* run returned the error of the broken first file: the source file after it
\* was not scanned
C21_AbortedAtFirstFile ==
    /\ pc = "ReturnErr" /\ idx = 1
    /\ Len(tree) = 2 /\ tree[2].ext = "go" /\ tree[2].decls = << declSt >>
    /\ enums = << >>

grpWords == <<"S","t"," ","s","t"," ","o","n"," ","o","f","f">>
txtWords == <<"s","t"," ","o","n"," ","o","f","f">>

\* C22: in every state of the registry each group is stored under its name,
\* and the name is a base name without a space, one space and the group's
\* description: the description is the name's text after its first space.
\* Two sightings of one name so have one description, and no merge changes
\* the description of a stored group.
C22_NameIsBaseAndDescription ==
    \A g \in DOMAIN enums :
        /\ enums[g].Name = g
        /\ Index(g, << " " >>) # 0
        /\ enums[g].Description = SubSeq(g, Index(g, << " " >>) + 1, Len(g))

\* the group with the description st on off was sighted twice in one file:
\* it is stored once, with its four-word name and the description unchanged
C22_SameDescriptionMerged ==
    /\ ScanEnded /\ scans = 1
    /\ GoDecls = << declWords, declWords >>
    /\ DOMAIN enums = { grpWords }
    /\ enums[grpWords].Description = txtWords

\* the step is a call of Query made with the flag false
QueryWhileUnprocessed == lastCall'.op = "Query" /\ calls' # calls /\ ~docsProcessed

\* the step is a call of LoadAndProcessDocuments that returned an error
LoadFailed == lastCall'.op = "Load" /\ calls' # calls /\ lastCall'.err # "nil"

\* the step sets the flag
FlagRaised == ~docsProcessed /\ docsProcessed'

\* C23: the flag is false on construction; a Query made while it is false
\* returns an error and makes neither a similarity search nor a call of the
\* language model; the flag becomes true only by a LoadAndProcessDocuments
\* that returns no error or by SetDocsProcessed(true); and a
\* LoadAndProcessDocuments that fails at any stage leaves the flag as it was.
C23_QueryNeedsProcessedDocs ==
    /\ [](calls = 0 => ~docsProcessed)
    /\ [][ /\ QueryWhileUnprocessed =>
                  lastCall'.err = "unprocessed" /\ searches' = searches /\ llmCalls' = llmCalls
           /\ FlagRaised =>
                  \/ lastCall' = Call("Load", FALSE, "nil")
                  \/ lastCall' = Call("Set", TRUE, "nil")
           /\ LoadFailed => docsProcessed' = docsProcessed ]_vars

\* four calls in, one load has succeeded and the last call, a query, was
\* answered: one search and one call of the language model were made
C23_AnsweredAfterLoad ==
    /\ calls = 4 /\ docsProcessed
    /\ stored = 1 /\ searches = 1 /\ llmCalls = 1
    /\ lastCall = Call("Query", FALSE, "nil")

====
